---- MODULE Spec2Model ----
(***************************************************************************)
(* Generation orchestration engine of the image-generation Telegram bot:   *)
(* the conversational state machine of one user (bot/handlers.py), the     *)
(* credit ledger (database/db_manager.py, admin/routes.py) and the file    *)
(* zones (storage/file_manager.py).                                        *)
(*                                                                         *)
(* Spec        the session: the handlers of the generation flow and the    *)
(*             generation handler, cut at its awaits                       *)
(* SpecLedger  concurrent balance updates, cut between read and commit     *)
(* SpecSettle  the settlement of one attempt, on every input in the bounds *)
(* SpecPoll    one call of wait_for_completion and its report to the user  *)
(* SpecCache   calls of upload_file against the file_cache table           *)
(* SpecStore   the operations of the file manager, in any order            *)
(* SpecDir     the moves of the file manager on files of equal names       *)
(* SpecRequest one credit request and the operator actions on it           *)
(* SpecExtract the search for the image URL in a result, on every result  *)
(*             in the bounds                                               *)
(* SpecJobId   the search for the job identifier in a submit response      *)
(* SpecUrl     one call of upload_file down to _get_public_url             *)
(* SpecResolve the handlers that resolve the photo source of a session     *)
(*                                                                         *)
(* Keys of context.user_data that only feed message texts (photo_source,   *)
(* aspect_ratio, prompt_message_id) are left out, and so are, in Spec, the *)
(* handlers of reference sets, mode selection and informational commands.  *)
(***************************************************************************)
EXTENDS Integers, Sequences, FiniteSets, TLC

(***************************************************************************)
(* Bounds of the model                                                     *)
(***************************************************************************)
\* number of photo files the user can upload in one run
MaxFiles == 2
\* number of aspect-ratio button presses that start the generation handler
MaxAttempts == 1
\* number of concurrent balance updates of the ledger specification
MaxLedgerOps == 3
\* largest balance and largest cost of the settlement specification
MaxAmount == 6
\* reference photos a route accepts (config.constants.get_max_photos_for_mode)
MaxPhotosSeedream == 1
MaxPhotosNanoBanana == 3
\* max_wait_time of wait_for_completion, in poll intervals
MaxWait == 3
\* the longest a status request takes, in poll intervals
MaxRequestTime == 1
\* the clock of the poll specification stops here
MaxClock == MaxWait + MaxRequestTime + 2
\* distinct file contents and distinct URLs the upload service returns
MaxHashes == 2
MaxUrls == 2
\* settings.FILE_CACHE_TTL_DAYS, in ticks of the clock of the cache specification
CacheTtl == 2
\* calls of upload_file in one run of the cache specification
MaxUploads == 3
\* the clock of the cache specification stops here
MaxCacheClock == CacheTtl + 1
\* files, names, timestamps per name, seconds, paths per call and calls of the
\* directory specification
MaxDiskFiles == 4
MaxStems == 1
MaxStamps == 2
MaxDiskClock == 1
MaxPaths == 2
MaxDirCalls == 2
\* operator actions on one credit request that may run at the same time
MaxResolvers == 2
\* longest 'jobs' list of a result of the extraction specification
MaxJobs == 2

(***************************************************************************)
(* Program constants                                                       *)
(***************************************************************************)
\* config.constants.GENERATION_CREDIT_COST ("Одна генерация стоит 50 кредитов")
GENERATION_CREDIT_COST == 50
\* CreditRequest.amount, default of the column
CREDIT_REQUEST_AMOUNT == 1000

STATE_IDLE == "idle"
STATE_WAITING_PHOTO == "waiting_photo"
STATE_WAITING_ASPECT == "waiting_aspect"
STATE_WAITING_PROMPT_DESCRIPTION == "waiting_prompt_description"

MODE_NANOBANANA == "nanobanana"
MODE_SEEDREAM == "seedream"

\* handle_aspect_ratio_callback: valid_ratios
valid_ratios == {"16:9", "1:1", "9:16", "4:3", "3:4", "21:9"}

\* wait_for_completion(request_id, settings.API_GENERATION_TIMEOUT, 5): the
\* poll interval, which is the unit of time of the poll specification
poll_interval == 1

\* Application.builder()...concurrent_updates(True)
concurrent_updates == TRUE

(***************************************************************************)
(* Inputs the environment may send                                         *)
(***************************************************************************)
Absent == "absent"
Prompts == {"p1"}
RatioInputs == {"1:1", "5:5"}
MediaGroupIds == {1, 2}
Amounts == {10, 50}
InitialBalances == {40, 100}
Files == 1..MaxFiles
AttemptIds == 1..MaxAttempts

VARIABLES
    user_data,      \* context.user_data of the one user (a dict; Absent = key missing)
    credits,        \* users.credits of that user
    actions,        \* action_history rows of that user, in insertion order
    floc,           \* zone in which each uploaded file currently lies
    tasks,          \* running invocations of handle_aspect_ratio_callback
    last_reply,     \* the last message sent: what handle_prompt replied, or "other"
    ledger,         \* ledger specification: the concurrent balance updates
    ledger_init,    \* ledger specification: balance before any update
    settle,         \* settle specification: inputs and result of one settlement
    poll,           \* poll specification: one call of wait_for_completion
    file_cache,     \* cache specification: the rows of the file_cache table
    utcnow,         \* cache specification: the clock, datetime.utcnow()
    upload,         \* cache specification: the last call of upload_file
    old_files,      \* store specification: files older than the cleanup cutoff
    disk,           \* directory specification: the files by directory and name
    request,        \* request specification: one credit request and its resolvers
    extract,        \* extraction and job-id specifications: a response and what is found in it
    public_url,     \* URL specification: a path and what _get_public_url returns
    set_images      \* resolution specification: stored paths of the set's images

\* the variables of the directory, request, extraction, URL and resolution
\* specifications
detail_vars == <<disk, request, extract, public_url, set_images>>

\* the variables of the job client, the upload cache and the store specifications
service_vars == <<poll, file_cache, utcnow, upload, old_files, detail_vars>>

vars == <<user_data, credits, actions, floc, tasks, last_reply,
          ledger, ledger_init, settle, service_vars>>

(***************************************************************************)
(* Helpers                                                                 *)
(***************************************************************************)
Min(a, b) == IF a <= b THEN a ELSE b

\* A file path: the zone directory and the (uuid) file name.
Path(z, f) == [zone |-> z, name |-> f]

\* context.user_data.clear(): every key missing.  String-valued keys hold Absent
\* when missing; list- and number-valued keys are present iff named in "has".
EmptyUserData ==
    [state |-> Absent, prompt |-> Absent, selected_mode |-> Absent,
     generated_prompt |-> Absent,
     new_photos_uploaded |-> FALSE, user_id |-> FALSE,
     has |-> {}, image_paths |-> <<>>, media_group_photos |-> <<>>,
     saved_image_paths |-> <<>>, credit_cost |-> 0]

\* context.user_data.get('state', STATE_IDLE)
SessionState == IF user_data.state = Absent THEN STATE_IDLE ELSE user_data.state

\* key in context.user_data, for the list- and number-valued keys
Has(ud, key) == key \in ud.has

\* context.user_data[key] = value, for a list-valued key
SetImagePaths(ud, v) ==
    [ud EXCEPT !.image_paths = v, !.has = @ \cup {"image_paths"}]
SetMediaGroups(ud, v) ==
    [ud EXCEPT !.media_group_photos = v, !.has = @ \cup {"media_group_photos"}]
SetSavedPaths(ud, v) ==
    [ud EXCEPT !.saved_image_paths = v, !.has = @ \cup {"saved_image_paths"}]
SetCreditCost(ud, v) ==
    [ud EXCEPT !.credit_cost = v, !.has = @ \cup {"credit_cost"}]

\* context.user_data.pop(key, None) / del context.user_data[key]
PopImagePaths(ud) ==
    [ud EXCEPT !.image_paths = <<>>, !.has = @ \ {"image_paths"}]
PopMediaGroups(ud) ==
    [ud EXCEPT !.media_group_photos = <<>>, !.has = @ \ {"media_group_photos"}]
PopSavedPaths(ud) ==
    [ud EXCEPT !.saved_image_paths = <<>>, !.has = @ \ {"saved_image_paths"}]

\* all paths of all media groups, groups in the given order
RECURSIVE FlattenGroups(_)
FlattenGroups(groups) ==
    IF groups = <<>> THEN <<>>
    ELSE Head(groups).paths \o FlattenGroups(Tail(groups))

\* the media groups in the order of sorted(all_media_groups.keys())
RECURSIVE SortedGroups(_)
SortedGroups(groups) ==
    IF groups = <<>> THEN <<>>
    ELSE LET i == CHOOSE k \in 1..Len(groups) :
                      \A j \in 1..Len(groups) : groups[k].id <= groups[j].id
         IN  <<groups[i]>> \o SortedGroups(SubSeq(groups, 1, i - 1)
                                             \o SubSeq(groups, i + 1, Len(groups)))

\* files lying in a zone, oldest first (file names are allocated in upload order,
\* and a rename keeps the modification time)
RECURSIVE ZoneFilesFrom(_, _, _)
ZoneFilesFrom(fl, z, f) ==
    IF f > MaxFiles THEN <<>>
    ELSE (IF fl[f] = z THEN <<Path(z, f)>> ELSE <<>>) \o ZoneFilesFrom(fl, z, f + 1)

\* file_manager.get_last_uploads
get_last_uploads(fl) == ZoneFilesFrom(fl, "last_uploads", 1)

\* file_manager.move_to_used on a set of file names: existing files go to used/
move_to_used(fl, names) ==
    [f \in Files |-> IF f \in names THEN "used" ELSE fl[f]]

\* file_manager.clear_last_uploads: every file of last_uploads/ goes to used/
clear_last_uploads(fl) ==
    move_to_used(fl, {f \in Files : fl[f] = "last_uploads"})

\* file_manager.move_to_last_uploads: the zone map after moving the paths that
\* exist and are not in a set directory (file names are unique, so the target
\* name is never taken by another file)
move_to_last_uploads(fl, paths) ==
    [f \in Files |->
        IF \E i \in 1..Len(paths) :
              /\ paths[i].name = f
              /\ fl[f] = paths[i].zone
              /\ paths[i].zone # "sets"
        THEN "last_uploads" ELSE fl[f]]

\* file_manager.move_to_last_uploads: the list of new paths it returns
RECURSIVE moved_paths_of(_, _)
moved_paths_of(fl, paths) ==
    IF paths = <<>> THEN <<>>
    ELSE LET p == Head(paths)
             here == IF fl[p.name] # p.zone THEN <<>>
                     ELSE IF p.zone = "sets" THEN <<p>>
                     ELSE <<Path("last_uploads", p.name)>>
             fl2 == IF fl[p.name] = p.zone /\ p.zone # "sets"
                    THEN [fl EXCEPT ![p.name] = "last_uploads"] ELSE fl
         IN  here \o moved_paths_of(fl2, Tail(paths))

\* db_manager.update_user_credits: the new balance
NoClampUpdateUserCredits(balance, credits_delta) == balance + credits_delta

update_user_credits(balance, credits_delta) ==
    IF balance + credits_delta < 0 THEN 0 ELSE balance + credits_delta

(***************************************************************************)
(* Session orchestrator: handlers of bot/handlers.py.  With                *)
(* concurrent_updates(True) every update is handled in a task of its own,  *)
(* so a handler may start while handle_aspect_ratio_callback is suspended. *)
(***************************************************************************)
NoTask == [pc |-> "none", aspect_ratio |-> "none", image_paths |-> <<>>,
           credit_cost |-> 0,
           generation_failed |-> FALSE, outcome |-> "none", debit |-> 0,
           restarted |-> FALSE]

InFlight(t) == tasks[t].pc \notin {"none", "done"}

\* telegram.ext.Application: updates are processed one after another unless
\* concurrent_updates is set
CanStart == concurrent_updates \/ \A t \in AttemptIds : ~InFlight(t)

\* a handler sends a message; the replies of handle_prompt, the refusal of an
\* aspect ratio and the refusal of a photo beyond the limit are told apart
Reply(handler, kind) ==
    last_reply' =
        IF \/ handler = "handle_prompt"
           \/ handler = "handle_photo" /\ kind \in {"limit_reached", "limit_exceeded"}
           \/ handler = "handle_aspect_ratio_callback" /\ kind = "invalid_ratio"
           \/ kind = "reset"
        THEN kind ELSE "other"

\* handle_prompt with the balance check left out
handle_prompt_unchecked(prompt) ==
    /\ user_data' =
         SetMediaGroups(SetImagePaths(SetCreditCost(
           [user_data EXCEPT !.prompt = prompt,
                             !.state = STATE_WAITING_PHOTO,
                             !.user_id = TRUE,
                             !.selected_mode =
                                 IF @ = Absent THEN MODE_SEEDREAM ELSE @],
           GENERATION_CREDIT_COST), <<>>), <<>>)
    /\ Reply("handle_prompt",
             IF get_last_uploads(floc) # <<>> THEN "choose_source"
             ELSE "send_photos")
    /\ UNCHANGED <<credits, actions, floc, tasks>>

\* handle_prompt: a prompt text received in the idle state
handle_prompt(prompt) ==
    IF credits < GENERATION_CREDIT_COST
    THEN /\ Reply("handle_prompt", "insufficient_credits")
         /\ UNCHANGED <<user_data, credits, actions, floc, tasks>>
    ELSE handle_prompt_unchecked(prompt)

\* cancel_prompt_master_state
cancel_prompt_master_state(ud) ==
    IF ud.state = STATE_WAITING_PROMPT_DESCRIPTION
    THEN [ud EXCEPT !.state = STATE_IDLE, !.generated_prompt = Absent]
    ELSE ud

\* handle_prompt_description: the text-completion assistant answers or fails
handle_prompt_description ==
    \E answer \in Prompts \cup {Absent} :
        /\ user_data' = [user_data EXCEPT
                            !.generated_prompt =
                                IF answer = Absent THEN @ ELSE answer,
                            !.state = STATE_IDLE]
        /\ Reply("handle_prompt_description",
                 IF answer = Absent THEN "error" ELSE "prompt_generated")
        /\ UNCHANGED <<credits, actions, floc, tasks>>

\* handle_text: a text that is no menu command, dispatched on the state
handle_text ==
    /\ CanStart
    /\ \E prompt \in Prompts :
         CASE SessionState = STATE_IDLE -> handle_prompt(prompt)
           [] SessionState = STATE_WAITING_PROMPT_DESCRIPTION ->
                handle_prompt_description
           [] SessionState = STATE_WAITING_PHOTO ->
                /\ Reply("handle_text", "send_photos_reminder")
                /\ UNCHANGED <<user_data, credits, actions, floc, tasks>>
           [] OTHER ->
                /\ user_data' = [user_data EXCEPT !.state = STATE_IDLE]
                /\ Reply("handle_text", "none")
                /\ UNCHANGED <<credits, actions, floc, tasks>>
    /\ UNCHANGED <<ledger, ledger_init, settle, service_vars>>

\* prompt_master_command
prompt_master_command ==
    /\ CanStart
    /\ user_data' = [user_data EXCEPT !.state = STATE_WAITING_PROMPT_DESCRIPTION]
    /\ Reply("prompt_master_command", "describe")
    /\ UNCHANGED <<credits, actions, floc, tasks, ledger, ledger_init, settle, service_vars>>

\* handle_use_prompt_callback, callback use_prompt_seedream
handle_use_prompt_seedream ==
    IF user_data.generated_prompt = Absent
    THEN /\ Reply("handle_use_prompt_callback", "prompt_not_found")
         /\ UNCHANGED user_data
    ELSE /\ user_data' =
              SetMediaGroups(SetImagePaths(SetCreditCost(
                [user_data EXCEPT !.selected_mode = MODE_SEEDREAM,
                                  !.prompt = user_data.generated_prompt,
                                  !.state = STATE_WAITING_PHOTO,
                                  !.user_id = TRUE],
                GENERATION_CREDIT_COST), <<>>), <<>>)
              /\ Reply("handle_use_prompt_callback", "prompt_set")

\* handle_use_prompt_callback: use_prompt_seedream or cancel_prompt_master
handle_use_prompt_callback ==
    /\ CanStart
    /\ \/ handle_use_prompt_seedream
       \/ /\ user_data' = cancel_prompt_master_state(user_data)
          /\ Reply("handle_use_prompt_callback", "cancelled")
    /\ UNCHANGED <<credits, actions, floc, tasks, ledger, ledger_init, settle, service_vars>>


\* config.constants.get_max_photos_for_mode
get_max_photos_for_mode(mode) ==
    IF mode = MODE_NANOBANANA THEN MaxPhotosNanoBanana ELSE MaxPhotosSeedream

\* get_user_mode: the mode it returns (the user row holds the default mode)
get_user_mode(ud) ==
    IF ud.selected_mode # Absent THEN ud.selected_mode ELSE MODE_SEEDREAM

\* get_user_mode: it stores the mode in the context when the key is missing
with_user_mode(ud) == [ud EXCEPT !.selected_mode = get_user_mode(ud)]

\* the name save_file gives a new file: one no file has had before
FreshFile == CHOOSE f \in Files : floc[f] = "none" /\ \A g \in Files : g < f => floc[g] # "none"

\* index of a media group in context.user_data['media_group_photos'], 0 if missing
GroupIndex(groups, gid) ==
    IF \E i \in 1..Len(groups) : groups[i].id = gid
    THEN CHOOSE i \in 1..Len(groups) : groups[i].id = gid
    ELSE 0

\* lines 421-424: the refusal names the limit and the photos counted
limit_reply(total_count, MAX_PHOTOS) ==
    IF total_count = MAX_PHOTOS THEN "limit_reached" ELSE "limit_exceeded"

\* handle_photo, a photo that belongs to the media group gid; "slack" is what
\* the test of the limit adds to MAX_PHOTOS (nothing, in the program)
photo_of_group(gid, download_ok, slack) ==
    LET ud0 == with_user_mode(user_data)
        MAX_PHOTOS == get_max_photos_for_mode(get_user_mode(ud0))
        g0  == IF Has(ud0, "media_group_photos") THEN ud0.media_group_photos ELSE <<>>
        g1  == IF GroupIndex(g0, gid) = 0
               THEN Append(g0, [id |-> gid, paths |-> <<>>]) ELSE g0
        ud1 == SetMediaGroups(
                 IF Has(ud0, "image_paths") THEN ud0 ELSE SetImagePaths(ud0, <<>>), g1)
        i   == GroupIndex(g1, gid)
        total_count == Len(ud1.image_paths) + Len(g1[i].paths)
    IN  IF total_count >= MAX_PHOTOS + slack
        THEN /\ user_data' = ud1
             /\ Reply("handle_photo", limit_reply(total_count, MAX_PHOTOS))
             /\ floc' = clear_last_uploads(floc)
        ELSE IF ~download_ok
        THEN /\ user_data' = EmptyUserData
             /\ Reply("handle_photo", "error")
             /\ floc' = clear_last_uploads(floc)
        ELSE /\ \E f \in Files : floc[f] = "none"
             /\ user_data' =
                  [SetMediaGroups(ud1,
                      [g1 EXCEPT ![i].paths = Append(@, Path("root", FreshFile))])
                   EXCEPT !.new_photos_uploaded = TRUE]
             /\ floc' = [clear_last_uploads(floc) EXCEPT ![FreshFile] = "root"]
             /\ Reply("handle_photo", "photo_received")

\* the test of the limit passing one photo too many
handle_photo_group_one_more(gid, download_ok) == photo_of_group(gid, download_ok, 1)

\* handle_photo, lines 411-478
handle_photo_group(gid, download_ok) == photo_of_group(gid, download_ok, 0)

\* handle_photo, a photo outside any media group
handle_photo_single(download_ok) ==
    LET ud0 == with_user_mode(user_data)
        g0  == IF Has(ud0, "media_group_photos") THEN ud0.media_group_photos ELSE <<>>
        ud1 == SetMediaGroups(
                 IF Has(ud0, "image_paths") THEN ud0 ELSE SetImagePaths(ud0, <<>>), g0)
    IN  IF ~download_ok
        THEN /\ user_data' = EmptyUserData
             /\ Reply("handle_photo", "error")
             /\ floc' = clear_last_uploads(floc)
        ELSE /\ \E f \in Files : floc[f] = "none"
             /\ user_data' =
                  [SetCreditCost(
                      SetImagePaths(ud1, Append(ud1.image_paths, Path("root", FreshFile))),
                      GENERATION_CREDIT_COST)
                   EXCEPT !.user_id = TRUE,
                          !.new_photos_uploaded = TRUE,
                          !.state = STATE_WAITING_PHOTO]
             /\ floc' = [clear_last_uploads(floc) EXCEPT ![FreshFile] = "root"]
             /\ Reply("handle_photo", "photo_saved")

\* handle_photo: a photo message
handle_photo ==
    /\ CanStart
    /\ IF SessionState # STATE_WAITING_PHOTO
       THEN /\ Reply("handle_photo", "send_prompt_first")
            /\ UNCHANGED <<user_data, floc>>
       ELSE IF credits < GENERATION_CREDIT_COST
       THEN /\ user_data' = EmptyUserData
            /\ floc' = clear_last_uploads(floc)
            /\ Reply("handle_photo", "insufficient_credits")
       ELSE \E download_ok \in BOOLEAN :
              \/ \E gid \in MediaGroupIds : handle_photo_group(gid, download_ok)
              \/ handle_photo_single(download_ok)
    /\ UNCHANGED <<credits, actions, tasks, ledger, ledger_init, settle, service_vars>>

\* handle_skip_photo_callback
handle_skip_photo_callback ==
    /\ CanStart
    /\ IF user_data.prompt = Absent
       THEN /\ Reply("handle_skip_photo_callback", "send_prompt_first")
            /\ UNCHANGED user_data
       ELSE /\ user_data' = [SetImagePaths(user_data, <<>>) EXCEPT
                                !.state = STATE_WAITING_ASPECT]
            /\ Reply("handle_skip_photo_callback", "choose_aspect")
    /\ UNCHANGED <<credits, actions, floc, tasks, ledger, ledger_init, settle, service_vars>>

\* handle_use_last_uploads_callback
handle_use_last_uploads_callback ==
    /\ CanStart
    /\ IF user_data.prompt = Absent
       THEN /\ Reply("handle_use_last_uploads_callback", "send_prompt_first")
            /\ UNCHANGED user_data
       ELSE IF get_last_uploads(floc) = <<>>
       THEN /\ Reply("handle_use_last_uploads_callback", "no_saved_photos")
            /\ UNCHANGED user_data
       ELSE /\ user_data' = [SetImagePaths(user_data, get_last_uploads(floc)) EXCEPT
                                !.state = STATE_WAITING_ASPECT,
                                !.new_photos_uploaded = FALSE]
            /\ Reply("handle_use_last_uploads_callback", "choose_aspect")
    /\ UNCHANGED <<credits, actions, floc, tasks, ledger, ledger_init, settle, service_vars>>

\* the number of photos photos_upload_more reports
RECURSIVE CountGroupPhotos(_)
CountGroupPhotos(groups) ==
    IF groups = <<>> THEN 0
    ELSE Len(Head(groups).paths) + CountGroupPhotos(Tail(groups))

\* handle_photo_upload_control_callback, callback photos_all_uploaded
photos_all_uploaded ==
    LET all_image_paths == user_data.image_paths
                             \o FlattenGroups(SortedGroups(user_data.media_group_photos))
        ud1 == IF user_data.media_group_photos # <<>>
               THEN PopMediaGroups(user_data) ELSE user_data
    IN  IF all_image_paths = <<>>
        THEN /\ user_data' = ud1
             /\ Reply("handle_photo_upload_control_callback", "no_photos")
             /\ UNCHANGED floc
        ELSE /\ user_data' = [SetImagePaths(ud1, all_image_paths) EXCEPT
                                 !.state = STATE_WAITING_ASPECT]
             /\ Reply("handle_photo_upload_control_callback", "choose_aspect")
             /\ UNCHANGED floc

\* handle_photo_upload_control_callback, callback photos_upload_more
photos_upload_more ==
    /\ user_data' = with_user_mode(user_data)
    /\ Reply("handle_photo_upload_control_callback",
             IF Len(user_data.image_paths) + CountGroupPhotos(user_data.media_group_photos)
                  >= get_max_photos_for_mode(get_user_mode(user_data))
             THEN "limit_reached" ELSE "send_more")
    /\ UNCHANGED floc

\* handle_photo_upload_control_callback, callback photos_upload_cancel
photos_upload_cancel ==
    /\ user_data' = [SetImagePaths(user_data, <<>>) EXCEPT !.state = STATE_IDLE]
    /\ floc' = IF user_data.user_id THEN clear_last_uploads(floc) ELSE floc
    /\ Reply("handle_photo_upload_control_callback", "cancelled")

\* handle_photo_upload_control_callback
handle_photo_upload_control_callback ==
    /\ CanStart
    /\ \/ photos_all_uploaded
       \/ photos_upload_more
       \/ photos_upload_cancel
    /\ UNCHANGED <<credits, actions, tasks, ledger, ledger_init, settle, service_vars>>


\* handle_restart_generation_callback with only the state key written
restart_keeping_context ==
    /\ CanStart
    /\ user_data' = [user_data EXCEPT !.state = STATE_IDLE]
    /\ tasks' = [t \in AttemptIds |->
                    IF tasks[t].pc = "poll" THEN [tasks[t] EXCEPT !.restarted = TRUE]
                    ELSE tasks[t]]
    /\ Reply("handle_restart_generation_callback", "reset")
    /\ UNCHANGED <<credits, actions, floc, ledger, ledger_init, settle, service_vars>>

\* handle_restart_generation_callback: a running generation handler is not
\* cancelled; "restarted" remembers that its job was in flight at the restart
handle_restart_generation_callback ==
    /\ CanStart
    /\ user_data' = [EmptyUserData EXCEPT !.state = STATE_IDLE]
    /\ tasks' = [t \in AttemptIds |->
                    IF tasks[t].pc = "poll" THEN [tasks[t] EXCEPT !.restarted = TRUE]
                    ELSE tasks[t]]
    /\ Reply("handle_restart_generation_callback", "reset")
    /\ UNCHANGED <<credits, actions, floc, ledger, ledger_init, settle, service_vars>>

\* cancel (the /cancel command): the context is cleared, so the state key is
\* missing and reads as STATE_IDLE
cancel ==
    /\ CanStart
    /\ user_data' = EmptyUserData
    /\ Reply("cancel", "reset")
    /\ UNCHANGED <<credits, actions, floc, tasks, ledger, ledger_init, settle, service_vars>>

\* handle_skip_save_set_callback
handle_skip_save_set_callback ==
    /\ CanStart
    /\ user_data' = [PopSavedPaths(user_data) EXCEPT !.new_photos_uploaded = FALSE]
    /\ Reply("handle_skip_save_set_callback", "skipped")
    /\ UNCHANGED <<credits, actions, floc, tasks, ledger, ledger_init, settle, service_vars>>

(***************************************************************************)
(* handle_aspect_ratio_callback, one action per stretch between awaits.    *)
(***************************************************************************)
\* max(all_media_groups.keys(), key=lambda k: len(all_media_groups[k])): the
\* first group, in insertion order, of largest size
latest_group(groups) ==
    CHOOSE i \in 1..Len(groups) :
        /\ \A j \in 1..Len(groups) : Len(groups[j].paths) <= Len(groups[i].paths)
        /\ \A j \in 1..(i - 1) : Len(groups[j].paths) < Len(groups[i].paths)

\* lines 1122-1131: take over the largest media group
merge_media_group(ud) ==
    LET g == ud.media_group_photos
    IN  IF g # <<>> /\ g[latest_group(g)].paths # <<>>
        THEN PopMediaGroups(SetImagePaths(ud, g[latest_group(g)].paths))
        ELSE ud

\* db_manager.add_action for a generation attempt
add_action(log, attempt, action_type, credits_spent) ==
    Append(log, [attempt |-> attempt, action_type |-> action_type,
                 credits_spent |-> credits_spent])

\* lines 1299-1304 with the debit made whatever the outcome
settle_always_debit(balance, credit_cost, generation_failed) ==
    [balance |-> update_user_credits(balance, 0 - credit_cost),
     credit_cost |-> IF generation_failed THEN 0 ELSE credit_cost]

\* lines 1299-1304: the balance after settlement and the credit_cost recorded
settle_credits(balance, credit_cost, generation_failed) ==
    IF ~generation_failed
    THEN [balance |-> update_user_credits(balance, 0 - credit_cost),
          credit_cost |-> credit_cost]
    ELSE [balance |-> balance, credit_cost |-> 0]

\* the first free slot for an invocation of the handler
NextAttempt(t) ==
    /\ tasks[t].pc = "none"
    /\ \A u \in AttemptIds : u < t => tasks[u].pc # "none"

\* lines 1118-1162 without the validation of the ratio
accept_aspect_ratio(aspect_ratio) ==
    \E t \in AttemptIds :
        /\ NextAttempt(t)
        /\ user_data' = merge_media_group(user_data)
        /\ tasks' = [tasks EXCEPT ![t] =
              [NoTask EXCEPT !.pc = "edit",
                             !.aspect_ratio = aspect_ratio,
                             !.image_paths = user_data'.image_paths]]
        /\ Reply("handle_aspect_ratio_callback", "in_progress")

\* lines 1103-1162: the ratio is validated, then the handler goes on
check_aspect_ratio(aspect_ratio) ==
    IF aspect_ratio \notin valid_ratios
    THEN /\ Reply("handle_aspect_ratio_callback", "invalid_ratio")
         /\ UNCHANGED <<user_data, tasks>>
    ELSE accept_aspect_ratio(aspect_ratio)

\* lines 1090-1134: an aspect-ratio button is pressed
AspectCallback ==
    /\ CanStart
    /\ \E ratio \in RatioInputs : check_aspect_ratio(ratio)
    /\ UNCHANGED <<credits, actions, floc, ledger, ledger_init, settle, service_vars>>

\* lines 1164-1187: the progress message is shown, then the context is read
GenReadContext(t) ==
    /\ tasks[t].pc = "edit"
    /\ \E edit_ok \in BOOLEAN :
         IF ~edit_ok
         THEN /\ tasks' = [tasks EXCEPT ![t].pc = "done", ![t].outcome = "aborted"]
              /\ UNCHANGED <<user_data, last_reply>>
         ELSE IF user_data.prompt = Absent \/ ~user_data.user_id
         THEN /\ user_data' = [user_data EXCEPT !.state = STATE_IDLE]
              /\ tasks' = [tasks EXCEPT ![t].pc = "done", ![t].outcome = "no_data"]
              /\ Reply("handle_aspect_ratio_callback", "no_data")
         ELSE /\ tasks' = [tasks EXCEPT
                             ![t].pc = "submit",
                             ![t].credit_cost =
                                 IF Has(user_data, "credit_cost")
                                 THEN user_data.credit_cost
                                 ELSE GENERATION_CREDIT_COST]
              /\ UNCHANGED <<user_data, last_reply>>
    /\ UNCHANGED <<credits, actions, floc, ledger, ledger_init, settle, service_vars>>

\* lines 1191-1222: api_client.generate and the search for the job id
GenSubmit(t) ==
    /\ tasks[t].pc = "submit"
    /\ \E answer \in {"raise", "request_id", "no_id"} :
         tasks' = [tasks EXCEPT
                     ![t].pc = CASE answer = "raise" -> "except"
                                 [] answer = "request_id" -> "poll"
                                 [] OTHER -> "settle",
                     ![t].outcome = IF answer = "raise" THEN "submit_error"
                                    ELSE "submitted"]
    /\ UNCHANGED <<user_data, credits, actions, floc, last_reply,
                   ledger, ledger_init, settle, service_vars>>

\* what api_client.wait_for_completion does: return, or raise TimeoutError,
\* ValueError("nsfw:"), ValueError("canceled:"), RuntimeError("failed:"), other
PollResults == {"completed", "timeout", "nsfw", "canceled", "failed", "poll_error"}

\* lines 1225-1297: wait_for_completion and its except clauses
GenPoll(t) ==
    /\ tasks[t].pc = "poll"
    /\ \E status \in PollResults :
         /\ tasks' = [tasks EXCEPT ![t].pc = "settle",
                                   ![t].outcome = status,
                                   ![t].generation_failed = (status # "completed")]
         /\ IF status = "completed" THEN UNCHANGED last_reply
            ELSE Reply("handle_aspect_ratio_callback", status)
    /\ UNCHANGED <<user_data, credits, actions, floc, ledger, ledger_init, settle, service_vars>>

\* lines 1299-1304: the debit
GenSettle(t) ==
    /\ tasks[t].pc = "settle"
    /\ LET s == settle_credits(credits, tasks[t].credit_cost,
                               tasks[t].generation_failed)
       IN  /\ credits' = s.balance
           /\ tasks' = [tasks EXCEPT ![t].pc = "record",
                                     ![t].credit_cost = s.credit_cost,
                                     ![t].debit = credits - s.balance]
    /\ UNCHANGED <<user_data, actions, floc, last_reply, ledger, ledger_init, settle, service_vars>>

\* lines 1307-1361: the ActionHistory row, the failure exit, the URL search
GenRecord(t) ==
    /\ tasks[t].pc = "record"
    /\ actions' = add_action(actions, t,
                             IF tasks[t].generation_failed
                             THEN "api_request_error" ELSE "api_request",
                             tasks[t].credit_cost)
    /\ IF tasks[t].generation_failed
       THEN /\ user_data' = [PopMediaGroups(PopImagePaths(user_data)) EXCEPT
                                !.prompt = Absent, !.state = STATE_IDLE]
            /\ tasks' = [tasks EXCEPT ![t].pc = "finally"]
       ELSE /\ \E url_found \in BOOLEAN :
                 tasks' = [tasks EXCEPT
                             ![t].pc = IF url_found THEN "download" ELSE "except",
                             ![t].outcome = IF url_found THEN @ ELSE "no_url"]
            /\ UNCHANGED user_data
    /\ UNCHANGED <<credits, floc, last_reply, ledger, ledger_init, settle, service_vars>>

\* lines 1363-1419: the result image is fetched; model_name is bound only
\* after the fetch, so the failure report of lines 1563-1571 raises
GenDownload(t) ==
    /\ tasks[t].pc = "download"
    /\ \E fetched \in BOOLEAN :
         IF fetched
         THEN /\ user_data' = with_user_mode(user_data)
              /\ tasks' = [tasks EXCEPT ![t].pc = "send"]
         ELSE /\ tasks' = [tasks EXCEPT ![t].pc = "except",
                                        ![t].outcome = "download_failed"]
              /\ UNCHANGED user_data
    /\ UNCHANGED <<credits, actions, floc, last_reply, ledger, ledger_init, settle, service_vars>>

\* lines 1610-1611: remember the photos for the offer to save them as a set
remember_saved_paths(ud, paths) ==
    IF ud.new_photos_uploaded /\ paths # <<>> THEN SetSavedPaths(ud, paths) ELSE ud

\* lines 1421-1630: the image is saved and sent; a failure is reported by
\* lines 1572-1575, whose second send is not guarded
GenSend(t) ==
    /\ tasks[t].pc = "send"
    /\ \E sent \in {"delivered", "reported", "raise"} :
         /\ tasks' = [tasks EXCEPT
                        ![t].pc = IF sent = "raise" THEN "except" ELSE "finally",
                        ![t].outcome = IF sent = "delivered" THEN "success"
                                       ELSE "save_failed"]
         /\ user_data' = IF sent = "raise" THEN user_data
                         ELSE remember_saved_paths(user_data, tasks[t].image_paths)
         /\ Reply("handle_aspect_ratio_callback",
                  IF sent = "delivered" THEN "result" ELSE "result_link")
    /\ UNCHANGED <<credits, actions, floc, ledger, ledger_init, settle, service_vars>>

\* lines 1632-1688: the outer except clause; its second send is not guarded
GenExcept(t) ==
    /\ tasks[t].pc = "except"
    /\ \E message_sent \in BOOLEAN :
         IF message_sent
         THEN /\ actions' = add_action(actions, t, "api_request_error", 0)
              /\ user_data' = remember_saved_paths(user_data, user_data.image_paths)
              /\ Reply("handle_aspect_ratio_callback", "error")
         ELSE UNCHANGED <<actions, user_data, last_reply>>
    /\ tasks' = [tasks EXCEPT ![t].pc = "finally"]
    /\ UNCHANGED <<credits, floc, ledger, ledger_init, settle, service_vars>>

\* lines 1692-1721 of the finally clause: the context after the moves
finally_context(ud, fl) ==
    LET ud1 == IF ud.image_paths # <<>> /\ ud.new_photos_uploaded
                    /\ Has(ud, "saved_image_paths")
               THEN SetSavedPaths(ud, moved_paths_of(fl, ud.image_paths))
               ELSE ud
    IN  IF Has(ud1, "media_group_photos") THEN PopMediaGroups(ud1) ELSE ud1

\* lines 1692-1721 of the finally clause: the files after the moves
finally_files(ud, fl) ==
    move_to_last_uploads(move_to_last_uploads(fl, ud.image_paths),
                         FlattenGroups(ud.media_group_photos))

\* lines 1724-1726: is the offer to save the photos as a set made
offers_save_set(ud) ==
    ud.new_photos_uploaded /\ (ud.saved_image_paths # <<>> \/ ud.image_paths # <<>>)

\* lines 1690-1749: the finally clause up to the sleep before the offer
GenFinally(t) ==
    /\ tasks[t].pc = "finally"
    /\ floc' = finally_files(user_data, floc)
    /\ LET ud == finally_context(user_data, floc)
       IN  IF offers_save_set(ud)
           THEN /\ user_data' = ud
                /\ tasks' = [tasks EXCEPT ![t].pc = "fin_offer"]
           ELSE /\ user_data' = [ud EXCEPT !.state = STATE_IDLE]
                /\ tasks' = [tasks EXCEPT ![t].pc = "done"]
    /\ UNCHANGED <<credits, actions, last_reply, ledger, ledger_init, settle, service_vars>>

\* lines 1728-1749: the offer is sent and the state reset
GenFinallyOffer(t) ==
    /\ tasks[t].pc = "fin_offer"
    /\ user_data' = [user_data EXCEPT !.state = STATE_IDLE]
    /\ tasks' = [tasks EXCEPT ![t].pc = "done"]
    /\ Reply("handle_aspect_ratio_callback", "offer_save_set")
    /\ UNCHANGED <<credits, actions, floc, ledger, ledger_init, settle, service_vars>>

(***************************************************************************)
(* The session specification                                               *)
(***************************************************************************)
NoLedger == [i \in 1..MaxLedgerOps |->
               [pc |-> "none", kind |-> "none", delta |-> 0, seen |-> 0]]
NoSettle == [stage |-> "none", balance |-> 0, credit_cost |-> 0,
             generation_failed |-> FALSE, result |-> 0, spent |-> 0]
NoPoll == [route |-> "none", pc |-> "none", now |-> 0, event |-> "none",
           status |-> "none", exc |-> "none", user_message |-> "none",
           generation_failed |-> FALSE]
NoUpload == [seq |-> 0, route |-> "none", file_hash |-> 0, exists |-> FALSE,
             cached_url |-> 0, url |-> 0, upload_calls |-> 0, saved |-> FALSE,
             found |-> FALSE]
\* the files of the directory specification, by content, and their names
DiskFiles == 1..MaxDiskFiles
Stems == 1..MaxStems
DirZones == {"root", "last_uploads", "used", "sets"}

\* a file name: the name it was saved under and the timestamps appended since
FileName(stem, stamps) == [stem |-> stem, stamps |-> stamps]

\* where a file is that lies under no path: it never existed, another
\* process took it away, or a rename replaced it
Lost(why) == Path(why, FileName(0, <<>>))

NoCall == [seq |-> 0, op |-> "none", paths |-> <<>>, new_paths |-> <<>>,
           raised |-> FALSE, repeat |-> FALSE, first_moved |-> FALSE,
           moved |-> FALSE]

NoDisk == [files |-> [c \in DiskFiles |-> Lost("absent")], now |-> 0,
           os_name |-> "none", call |-> NoCall]

NoRequest == [status |-> "none", amount |-> 0,
              ops |-> [i \in 1..MaxResolvers |->
                         [pc |-> "none", kind |-> "none", seen |-> 0,
                          result |-> "none"]]]
NoExtract == [stage |-> "none"]
NoPublicUrl == [stage |-> "none"]
NoSetImages == [f \in Files |-> "none"]

NoDetails ==
    /\ disk = NoDisk
    /\ request = NoRequest
    /\ extract = NoExtract
    /\ public_url = NoPublicUrl
    /\ set_images = NoSetImages

NoServices ==
    /\ poll = NoPoll
    /\ file_cache = <<>>
    /\ utcnow = 0
    /\ upload = NoUpload
    /\ old_files = {}
    /\ NoDetails

\* every variable of the session, the ledger, the settlement, the job client,
\* the cache and the store at its value before anything happened
AtRest ==
    /\ user_data = EmptyUserData
    /\ credits = 0
    /\ ledger_init = 0
    /\ actions = <<>>
    /\ floc = [f \in Files |-> "none"]
    /\ tasks = [t \in AttemptIds |-> NoTask]
    /\ last_reply = "none"
    /\ ledger = NoLedger
    /\ settle = NoSettle
    /\ poll = NoPoll
    /\ file_cache = <<>>
    /\ utcnow = 0
    /\ upload = NoUpload
    /\ old_files = {}

Init ==
    /\ NoServices
    /\ user_data = EmptyUserData
    /\ credits \in InitialBalances
    /\ actions = <<>>
    /\ floc = [f \in Files |-> "none"]
    /\ tasks = [t \in AttemptIds |-> NoTask]
    /\ last_reply = "none"
    /\ ledger = NoLedger
    /\ ledger_init = 0
    /\ settle = NoSettle

Next ==
    \/ handle_text
    \/ prompt_master_command
    \/ handle_use_prompt_callback
    \/ handle_photo
    \/ handle_skip_photo_callback
    \/ handle_use_last_uploads_callback
    \/ handle_photo_upload_control_callback
    \/ handle_restart_generation_callback
    \/ cancel
    \/ handle_skip_save_set_callback
    \/ AspectCallback
    \/ \E t \in AttemptIds :
         \/ GenReadContext(t)
         \/ GenSubmit(t)
         \/ GenPoll(t)
         \/ GenSettle(t)
         \/ GenRecord(t)
         \/ GenDownload(t)
         \/ GenSend(t)
         \/ GenExcept(t)
         \/ GenFinally(t)
         \/ GenFinallyOffer(t)

Spec == Init /\ [][Next]_vars

(***************************************************************************)
(* The ledger specification: balance updates of db_manager run in threads  *)
(* of their own (run_db_operation, the Flask thread), each with a session  *)
(* of its own: the row is read, changed in memory and written at commit.   *)
(***************************************************************************)
LedgerOps == 1..MaxLedgerOps

\* credits_delta of update_user_credits: the generation debit
\* (handle_aspect_ratio_callback), add_credits and subtract_credits (routes)
Deltas == {0 - GENERATION_CREDIT_COST} \cup Amounts \cup {0 - a : a \in Amounts}

InitLedger ==
    /\ NoServices
    /\ user_data = EmptyUserData
    /\ credits \in {0} \cup InitialBalances
    /\ ledger_init = credits
    /\ actions = <<>>
    /\ floc = [f \in Files |-> "none"]
    /\ tasks = [t \in AttemptIds |-> NoTask]
    /\ last_reply = "none"
    /\ ledger = NoLedger
    /\ settle = NoSettle

\* update_user_credits, lines 146-150: the session reads the user row
UpdateRead(i) ==
    /\ ledger[i].pc = "none"
    /\ \E credits_delta \in Deltas :
         ledger' = [ledger EXCEPT ![i] =
                      [pc |-> "commit", kind |-> "update_user_credits",
                       delta |-> credits_delta, seen |-> credits]]
    /\ UNCHANGED <<user_data, credits, actions, floc, tasks, last_reply,
                   ledger_init, settle, service_vars>>

\* update_user_credits, lines 152-156: the new value is written at commit
UpdateCommit(i) ==
    /\ ledger[i].pc = "commit"
    /\ ledger[i].kind = "update_user_credits"
    /\ credits' = update_user_credits(ledger[i].seen, ledger[i].delta)
    /\ ledger' = [ledger EXCEPT ![i].pc = "done"]
    /\ UNCHANGED <<user_data, actions, floc, tasks, last_reply, ledger_init, settle, service_vars>>

\* approve_credit_request, lines 396-404: the request and the user row are read
ApproveRead(i) ==
    /\ ledger[i].pc = "none"
    /\ ledger' = [ledger EXCEPT ![i] =
                    [pc |-> "commit", kind |-> "approve_credit_request",
                     delta |-> CREDIT_REQUEST_AMOUNT, seen |-> credits]]
    /\ UNCHANGED <<user_data, credits, actions, floc, tasks, last_reply,
                   ledger_init, settle, service_vars>>

\* approve_credit_request, lines 406-409: the new value is written at commit
ApproveCommit(i) ==
    /\ ledger[i].pc = "commit"
    /\ ledger[i].kind = "approve_credit_request"
    /\ credits' = ledger[i].seen + ledger[i].delta
    /\ ledger' = [ledger EXCEPT ![i].pc = "done"]
    /\ UNCHANGED <<user_data, actions, floc, tasks, last_reply, ledger_init, settle, service_vars>>

NextLedger ==
    \E i \in LedgerOps :
        \/ UpdateRead(i)
        \/ UpdateCommit(i)
        \/ ApproveRead(i)
        \/ ApproveCommit(i)

SpecLedger == InitLedger /\ [][NextLedger]_vars

\* the balance one update leaves when it runs alone on balance b
apply_update(b, op) ==
    IF op.kind = "update_user_credits" THEN update_user_credits(b, op.delta)
    ELSE b + op.delta

\* the balances the updates named in "todo" can leave when they run one
\* after another, in any order, starting from balance b
RECURSIVE SerialResults(_, _)
SerialResults(b, todo) ==
    IF todo = {} THEN {b}
    ELSE UNION {SerialResults(apply_update(b, ledger[i]), todo \ {i}) : i \in todo}

(***************************************************************************)
(* The settlement specification: lines 1299-1304 applied once to every     *)
(* balance, cost and outcome within the bounds.                            *)
(***************************************************************************)
InitSettle ==
    /\ NoServices
    /\ user_data = EmptyUserData
    /\ credits = 0
    /\ ledger_init = 0
    /\ actions = <<>>
    /\ floc = [f \in Files |-> "none"]
    /\ tasks = [t \in AttemptIds |-> NoTask]
    /\ last_reply = "none"
    /\ ledger = NoLedger
    /\ \E b \in 0..MaxAmount, c \in 0..MaxAmount, failed \in BOOLEAN :
         settle = [stage |-> "input", balance |-> b, credit_cost |-> c,
                   generation_failed |-> failed, result |-> b, spent |-> c]

Settle ==
    /\ settle.stage = "input"
    /\ LET s == settle_credits(settle.balance, settle.credit_cost,
                               settle.generation_failed)
       IN  settle' = [settle EXCEPT !.stage = "settled",
                                    !.result = s.balance,
                                    !.spent = s.credit_cost]
    /\ UNCHANGED <<user_data, credits, actions, floc, tasks, last_reply,
                   ledger, ledger_init, service_vars>>

NextSettle == Settle

SpecSettle == InitSettle /\ [][NextSettle]_vars

(***************************************************************************)
(* The poll specification: one call of wait_for_completion (api/client.py) *)
(* on either route, followed by the except clauses of the caller           *)
(* (handlers.py, lines 1242-1297).  Time is counted in poll intervals.     *)
(***************************************************************************)
\* the two routes: SeedreamAPIClient and NanoBananaAPIClient
Routes == {MODE_SEEDREAM, MODE_NANOBANANA}

\* the 'status' values of a status response ("" = the key is missing)
RootStatuses == {"", "queued", "completed", "nsfw", "NSFW", "failed",
                 "canceled", "cancelled", "error"}

\* the 'status' of jobs[0] of a status response ("nojobs" = no 'jobs' list)
JobStatuses == {"nojobs", "", "completed", "failed"}

\* what get_request_status does: it returns the decoded body, or raises
\* Exception (HTTP status or request error), or lets json.JSONDecodeError, a
\* ValueError, pass (response.json() on a body that is not JSON)
StatusResults ==
    [event : {"response"}, status : RootStatuses, job_status : JobStatuses]
      \cup {[event |-> e, status |-> "", job_status |-> "nojobs"] :
               e \in {"transport_error", "parse_error"}}

\* str.lower() on the status values of the model
lower(s) == IF s = "NSFW" THEN "nsfw" ELSE s

\* the status wait_for_completion reads from a response, per route: Seedream
\* looks at jobs[0] only when the root has none, NanoBanana prefers jobs[0]
status_of(route, r) ==
    IF route = MODE_SEEDREAM
    THEN IF lower(r.status) = "" /\ r.job_status # "nojobs"
         THEN lower(r.job_status) ELSE lower(r.status)
    ELSE IF r.job_status \notin {"nojobs", ""}
         THEN lower(r.job_status) ELSE lower(r.status)

\* the timeout check: elapsed_time >= max_wait_time, start_time being 0
timeout_check(now) ==
    IF now >= MaxWait THEN [pc |-> "raised", exc |-> "TimeoutError"]
    ELSE [pc |-> "sleep", exc |-> "none"]

\* one pass of the loop of SeedreamAPIClient.wait_for_completion
seedream_wait_step(r, now) ==
    LET status == status_of(MODE_SEEDREAM, r)
    IN  CASE r.event = "parse_error" -> [pc |-> "raised", exc |-> "ValueError:json"]
          [] r.event = "transport_error" -> [pc |-> "sleep", exc |-> "none"]
          [] status = "completed" -> [pc |-> "returned", exc |-> "none"]
          [] status = "nsfw" -> [pc |-> "raised", exc |-> "ValueError:nsfw"]
          [] status = "failed" -> [pc |-> "raised", exc |-> "RuntimeError:failed"]
          [] status \in {"canceled", "cancelled"} ->
                [pc |-> "raised", exc |-> "ValueError:canceled"]
          [] OTHER -> timeout_check(now)

\* one pass of the loop of NanoBananaAPIClient.wait_for_completion: status
\* 'error' raises Exception, which the loop's own except clause catches
nanobanana_wait_step(r, now) ==
    LET status == status_of(MODE_NANOBANANA, r)
    IN  CASE r.event = "parse_error" -> [pc |-> "raised", exc |-> "ValueError:json"]
          [] r.event = "transport_error" -> timeout_check(now)
          [] status = "completed" -> [pc |-> "returned", exc |-> "none"]
          [] status = "nsfw" -> [pc |-> "raised", exc |-> "ValueError:nsfw"]
          [] status = "failed" -> [pc |-> "raised", exc |-> "RuntimeError:failed"]
          [] status \in {"canceled", "cancelled"} ->
                [pc |-> "raised", exc |-> "ValueError:canceled"]
          [] status = "error" -> timeout_check(now)
          [] OTHER -> timeout_check(now)

wait_step(route, r, now) ==
    IF route = MODE_SEEDREAM THEN seedream_wait_step(r, now)
    ELSE nanobanana_wait_step(r, now)

\* the except clauses without the tests of the prefix of a ValueError
user_message_without_prefix(exc) ==
    CASE exc = "TimeoutError" -> "wait_time_exceeded"
      [] exc = "RuntimeError:failed" -> "server_error"
      [] OTHER -> "warning_with_error_text"

\* handlers.py, lines 1242-1297: the message shown for an exception of
\* wait_for_completion
user_message_for(exc) ==
    CASE exc = "TimeoutError" -> "wait_time_exceeded"
      [] exc = "ValueError:nsfw" -> "content_blocked"
      [] exc = "ValueError:canceled" -> "request_canceled"
      [] exc = "RuntimeError:failed" -> "server_error"
      [] OTHER -> "warning_with_error_text"

InitPoll ==
    /\ NoDetails
    /\ user_data = EmptyUserData
    /\ credits = 0
    /\ ledger_init = 0
    /\ actions = <<>>
    /\ floc = [f \in Files |-> "none"]
    /\ tasks = [t \in AttemptIds |-> NoTask]
    /\ last_reply = "none"
    /\ ledger = NoLedger
    /\ settle = NoSettle
    /\ file_cache = <<>>
    /\ utcnow = 0
    /\ upload = NoUpload
    /\ old_files = {}
    /\ \E route \in Routes : poll = [NoPoll EXCEPT !.route = route, !.pc = "request"]

\* lines 393-435 / 857-945: a status request, which takes some time, and what
\* the loop does with its result
PollRequest ==
    /\ poll.pc = "request"
    /\ \E r \in StatusResults, took \in 0..MaxRequestTime :
         LET now == poll.now + took
             next == wait_step(poll.route, r, now)
         IN  poll' = [poll EXCEPT
                        !.now = now,
                        !.event = r.event,
                        !.status = IF r.event = "response"
                                   THEN status_of(poll.route, r) ELSE "none",
                        !.pc = next.pc,
                        !.exc = next.exc]
    /\ UNCHANGED <<user_data, credits, actions, floc, tasks, last_reply,
                   ledger, ledger_init, settle, file_cache, utcnow, upload, old_files,
                   detail_vars>>

\* lines 438, 446 / 933, 947: asyncio.sleep(poll_interval)
PollSleep ==
    /\ poll.pc = "sleep"
    /\ poll.now + poll_interval <= MaxClock
    /\ poll' = [poll EXCEPT !.now = @ + poll_interval, !.pc = "request"]
    /\ UNCHANGED <<user_data, credits, actions, floc, tasks, last_reply,
                   ledger, ledger_init, settle, file_cache, utcnow, upload, old_files,
                   detail_vars>>

\* handlers.py, lines 1242-1297: the caller reports the exception
PollReport ==
    /\ poll.pc = "raised"
    /\ poll' = [poll EXCEPT !.pc = "reported",
                            !.user_message = user_message_for(poll.exc),
                            !.generation_failed = TRUE]
    /\ UNCHANGED <<user_data, credits, actions, floc, tasks, last_reply,
                   ledger, ledger_init, settle, file_cache, utcnow, upload, old_files,
                   detail_vars>>

NextPoll ==
    \/ PollRequest
    \/ PollSleep
    \/ PollReport

SpecPoll == InitPoll /\ [][NextPoll]_vars

(***************************************************************************)
(* The cache specification: upload_file of the two API clients and the     *)
(* file_cache table (db_manager).  upload_file is a plain function called  *)
(* from the coroutine generate, so a call runs to its end on the event     *)
(* loop before another call starts.  The column last_used_at is left out.  *)
(***************************************************************************)
\* file contents, by their SHA256 hash
Hashes == 1..MaxHashes

\* the URLs higgsfield_client.upload_file can return
ExternalUrls == 1..MaxUrls

\* _get_public_url: the URL of the file on the local server
LocalUrl(file_hash) == 0 - file_hash

\* None, for a URL
NoUrl == 0

\* the rows of file_cache with a given hash, by their position in the table
RowsOf(rows, file_hash) == {i \in 1..Len(rows) : rows[i].file_hash = file_hash}

\* Query.first(): the first of the rows that match, 0 when none does
first(matching) ==
    IF matching = {} THEN 0
    ELSE CHOOSE i \in matching : \A j \in matching : i <= j

\* get_file_cache with the comparison of the expiry turned around
get_file_cache_inverted(rows, file_hash, now) ==
    LET i == first({k \in RowsOf(rows, file_hash) : rows[k].expires_at < now})
    IN  IF i = 0 THEN NoUrl ELSE rows[i].higgsfield_url

\* db_manager.get_file_cache: the URL of the row that has not expired, or None
get_file_cache(rows, file_hash, now) ==
    LET i == first({k \in RowsOf(rows, file_hash) : rows[k].expires_at > now})
    IN  IF i = 0 THEN NoUrl ELSE rows[i].higgsfield_url

\* save_file_cache without the search for an existing row
save_file_cache_insert_only(rows, file_hash, higgsfield_url, expires_at) ==
    Append(rows, [file_hash |-> file_hash, higgsfield_url |-> higgsfield_url,
                  expires_at |-> expires_at])

\* db_manager.save_file_cache: the row of the hash is updated, or one is added
save_file_cache(rows, file_hash, higgsfield_url, expires_at) ==
    LET i == first(RowsOf(rows, file_hash))
    IN  IF i # 0
        THEN [rows EXCEPT ![i].higgsfield_url = higgsfield_url,
                          ![i].expires_at = expires_at]
        ELSE Append(rows, [file_hash |-> file_hash,
                           higgsfield_url |-> higgsfield_url,
                           expires_at |-> expires_at])

\* db_manager.cleanup_expired_file_cache
cleanup_expired_file_cache(rows, now) ==
    SelectSeq(rows, LAMBDA row : row.expires_at > now)

\* what a call of upload_file leaves: the URL returned, the number of calls of
\* higgsfield_client.upload_file, the table, and the values of its locals
UploadResult(url, upload_calls, rows, cached_url, saved, found) ==
    [url |-> url, upload_calls |-> upload_calls, rows |-> rows,
     cached_url |-> cached_url, saved |-> saved, found |-> found]

\* upload_file writing the URL of the local server into the cache as well
upload_file_caching_fallback(rows, file_hash, now, exists, available, answer) ==
    LET cached_url == get_file_cache(rows, file_hash, now)
        found == RowsOf(rows, file_hash) # {}
    IN  IF ~exists
        THEN UploadResult(LocalUrl(file_hash), 0, rows, NoUrl, FALSE, FALSE)
        ELSE IF cached_url # NoUrl
        THEN UploadResult(cached_url, 0, rows, cached_url, FALSE, FALSE)
        ELSE IF ~available
        THEN UploadResult(LocalUrl(file_hash), 0,
                          save_file_cache(rows, file_hash, LocalUrl(file_hash),
                                          now + CacheTtl),
                          NoUrl, TRUE, found)
        ELSE IF answer = NoUrl
        THEN UploadResult(LocalUrl(file_hash), 1, rows, NoUrl, FALSE, FALSE)
        ELSE UploadResult(answer, 1,
                          save_file_cache(rows, file_hash, answer, now + CacheTtl),
                          NoUrl, TRUE, found)

\* SeedreamAPIClient.upload_file and NanoBananaAPIClient.upload_file (the same
\* code): exists = the file is on disk, available = HIGGSFIELD_CLIENT_AVAILABLE,
\* answer = the URL higgsfield_client.upload_file returns, None when it raises
upload_file(rows, file_hash, now, exists, available, answer) ==
    LET cached_url == get_file_cache(rows, file_hash, now)
        found == RowsOf(rows, file_hash) # {}
    IN  IF ~exists
        THEN UploadResult(LocalUrl(file_hash), 0, rows, NoUrl, FALSE, FALSE)
        ELSE IF cached_url # NoUrl
        THEN UploadResult(cached_url, 0, rows, cached_url, FALSE, FALSE)
        ELSE IF ~available
        THEN UploadResult(LocalUrl(file_hash), 0, rows, NoUrl, FALSE, FALSE)
        ELSE IF answer = NoUrl
        THEN UploadResult(LocalUrl(file_hash), 1, rows, NoUrl, FALSE, FALSE)
        ELSE UploadResult(answer, 1,
                          save_file_cache(rows, file_hash, answer, now + CacheTtl),
                          NoUrl, TRUE, found)

InitCache ==
    /\ NoDetails
    /\ user_data = EmptyUserData
    /\ credits = 0
    /\ ledger_init = 0
    /\ actions = <<>>
    /\ floc = [f \in Files |-> "none"]
    /\ tasks = [t \in AttemptIds |-> NoTask]
    /\ last_reply = "none"
    /\ ledger = NoLedger
    /\ settle = NoSettle
    /\ poll = NoPoll
    /\ old_files = {}
    /\ file_cache = <<>>
    /\ utcnow = 0
    /\ upload = NoUpload

\* generate, lines 252-254 / 657-662: one call of upload_file on either route
UploadFile ==
    /\ upload.seq < MaxUploads
    /\ \E route \in Routes, file_hash \in Hashes, exists \in BOOLEAN,
          available \in BOOLEAN, answer \in ExternalUrls \cup {NoUrl} :
         LET r == upload_file(file_cache, file_hash, utcnow, exists, available, answer)
         IN  /\ file_cache' = r.rows
             /\ upload' = [seq |-> upload.seq + 1, route |-> route,
                           file_hash |-> file_hash, exists |-> exists,
                           cached_url |-> r.cached_url, url |-> r.url,
                           upload_calls |-> r.upload_calls, saved |-> r.saved,
                           found |-> r.found]
    /\ UNCHANGED <<user_data, credits, actions, floc, tasks, last_reply,
                   ledger, ledger_init, settle, poll, utcnow, old_files,
                   detail_vars>>

\* cleanup_expired_file_cache
CleanupExpired ==
    /\ file_cache' = cleanup_expired_file_cache(file_cache, utcnow)
    /\ file_cache' # file_cache
    /\ UNCHANGED <<user_data, credits, actions, floc, tasks, last_reply,
                   ledger, ledger_init, settle, poll, utcnow, upload, old_files,
                   detail_vars>>

\* time passes
CacheTick ==
    /\ utcnow < MaxCacheClock
    /\ utcnow' = utcnow + 1
    /\ UNCHANGED <<user_data, credits, actions, floc, tasks, last_reply,
                   ledger, ledger_init, settle, poll, file_cache, upload, old_files,
                   detail_vars>>

NextCache ==
    \/ UploadFile
    \/ CleanupExpired
    \/ CacheTick

SpecCache == InitCache /\ [][NextCache]_vars

(***************************************************************************)
(* The store specification: the operations of FileManager                  *)
(* (storage/file_manager.py) on the files of one user, called in any       *)
(* order.  A file is in the user's root directory, in last_uploads, used,  *)
(* results or a set directory, or it is gone ("deleted").                  *)
(***************************************************************************)
\* the zones in which a file that exists can lie
Zones == {"root", "last_uploads", "used", "results", "sets"}

\* os.path.exists for the file with name f
file_exists(fl, f) == fl[f] \in Zones

\* the paths of a set of files, where they lie now
RECURSIVE PathsFrom(_, _, _)
PathsFrom(fl, names, f) ==
    IF f > MaxFiles THEN <<>>
    ELSE (IF f \in names THEN <<Path(fl[f], f)>> ELSE <<>>)
           \o PathsFrom(fl, names, f + 1)

\* file_manager.move_file_to_set: the file goes to the set directory
move_file_to_set(fl, f) == [fl EXCEPT ![f] = "sets"]

\* file_manager.move_set_files_to_used
move_set_files_to_used(fl) == move_to_used(fl, {f \in Files : fl[f] = "sets"})

\* file_manager.clear_user_temp_files: last_uploads and the root go to used
clear_user_temp_files(fl) ==
    move_to_used(fl, {f \in Files : fl[f] \in {"last_uploads", "root"}})

\* file_manager.delete_file: get_file_path finds files of the root directory
\* only; the file found is unlinked
delete_file(fl, f) == IF fl[f] = "root" THEN [fl EXCEPT ![f] = "deleted"] ELSE fl

\* file_manager.cleanup_old_files: files of the root directory older than the
\* cutoff are unlinked
cleanup_old_files(fl, old) ==
    [f \in Files |-> IF fl[f] = "root" /\ f \in old THEN "deleted" ELSE fl[f]]

\* what the operations of the store leave alone
other_than_store == <<user_data, credits, actions, tasks, last_reply,
                      ledger, ledger_init, settle, poll, file_cache, utcnow, upload,
                      detail_vars>>

InitStore ==
    /\ NoDetails
    /\ user_data = EmptyUserData
    /\ credits = 0
    /\ ledger_init = 0
    /\ actions = <<>>
    /\ tasks = [t \in AttemptIds |-> NoTask]
    /\ last_reply = "none"
    /\ ledger = NoLedger
    /\ settle = NoSettle
    /\ poll = NoPoll
    /\ file_cache = <<>>
    /\ utcnow = 0
    /\ upload = NoUpload
    /\ floc = [f \in Files |-> "none"]
    /\ old_files = {}

\* save_file (an uploaded photo) and save_result_image (a generated image)
StoreSave ==
    /\ \E f \in Files : floc[f] = "none"
    /\ \E zone \in {"root", "results"} : floc' = [floc EXCEPT ![FreshFile] = zone]
    /\ UNCHANGED <<old_files, other_than_store>>

\* move_to_last_uploads on a list of paths of existing files
StoreMoveToLastUploads ==
    /\ \E names \in SUBSET Files :
         floc' = move_to_last_uploads(floc, PathsFrom(floc, names, 1))
    /\ UNCHANGED <<old_files, other_than_store>>

\* move_to_used on a list of paths
StoreMoveToUsed ==
    /\ \E names \in SUBSET Files :
         floc' = move_to_used(floc, {f \in names : file_exists(floc, f)})
    /\ UNCHANGED <<old_files, other_than_store>>

\* move_file_to_set
StoreMoveFileToSet ==
    /\ \E f \in Files : file_exists(floc, f) /\ floc' = move_file_to_set(floc, f)
    /\ UNCHANGED <<old_files, other_than_store>>

\* move_set_files_to_used
StoreMoveSetFilesToUsed ==
    /\ floc' = move_set_files_to_used(floc)
    /\ UNCHANGED <<old_files, other_than_store>>

\* clear_user_temp_files
StoreClearUserTempFiles ==
    /\ floc' = clear_user_temp_files(floc)
    /\ UNCHANGED <<old_files, other_than_store>>

\* clear_last_uploads
StoreClearLastUploads ==
    /\ floc' = clear_last_uploads(floc)
    /\ UNCHANGED <<old_files, other_than_store>>

\* delete_file
StoreDeleteFile ==
    /\ \E f \in Files : floc' = delete_file(floc, f)
    /\ UNCHANGED <<old_files, other_than_store>>

\* cleanup_old_files
StoreCleanupOldFiles ==
    /\ floc' = cleanup_old_files(floc, old_files)
    /\ UNCHANGED <<old_files, other_than_store>>

\* time passes: a file gets older than the cutoff of cleanup_old_files
StoreAge ==
    /\ \E f \in Files : file_exists(floc, f) /\ old_files' = old_files \cup {f}
    /\ UNCHANGED <<floc, other_than_store>>

NextStore ==
    \/ StoreSave
    \/ StoreMoveToLastUploads
    \/ StoreMoveToUsed
    \/ StoreMoveFileToSet
    \/ StoreMoveSetFilesToUsed
    \/ StoreClearUserTempFiles
    \/ StoreClearLastUploads
    \/ StoreDeleteFile
    \/ StoreCleanupOldFiles
    \/ StoreAge

SpecStore == InitStore /\ [][NextStore]_vars

(***************************************************************************)
(* The directory specification: move_to_used, move_to_last_uploads and     *)
(* move_file_to_set (storage/file_manager.py) on files told apart by their *)
(* content, each lying under a name in a directory of one user.  The       *)
(* directories may hold files of equal names; int(time.time()) is the      *)
(* clock, in seconds.                                                      *)
(***************************************************************************)

\* os.path.exists / Path.exists
path_exists(files, p) == \E c \in DiskFiles : files[c] = p

\* the file lying under a path
file_at(files, p) == CHOOSE c \in DiskFiles : files[c] = p

\* f"{name_parts[0]}_{name_parts[1]}{name_parts[2]}": the timestamp is put
\* between the stem and the suffix
with_timestamp(filename, timestamp) ==
    FileName(filename.stem, Append(filename.stamps, timestamp))

\* Path.rename (os.rename): a file under the target path is replaced on
\* POSIX; on Windows the call raises FileExistsError
rename(files, source_path, dest_path, os_name) ==
    IF ~path_exists(files, source_path)
    THEN [files |-> files, raised |-> TRUE]
    ELSE IF dest_path = source_path
    THEN [files |-> files, raised |-> FALSE]
    ELSE IF path_exists(files, dest_path)
    THEN IF os_name = "nt"
         THEN [files |-> files, raised |-> TRUE]
         ELSE [files |-> [c \in DiskFiles |->
                            IF files[c] = dest_path THEN Lost("replaced")
                            ELSE IF files[c] = source_path THEN dest_path
                            ELSE files[c]],
               raised |-> FALSE]
    ELSE [files |-> [files EXCEPT ![file_at(files, source_path)] = dest_path],
          raised |-> FALSE]

\* what a call of the file manager leaves: the files, the list it returns,
\* and whether it raised
DirResult(files, new_paths, raised) ==
    [files |-> files, new_paths |-> new_paths, raised |-> raised]

\* the result of a loop: the result of its first pass followed by the rest
Then(one, rest) ==
    DirResult(rest.files, one.new_paths \o rest.new_paths,
              one.raised \/ rest.raised)

\* move_to_used, lines 215-247, for one path.  fate tells whether another
\* process takes the file away during the pass: after the check of line 219
\* or after the check of line 236
move_one_to_used(files, file_path, now, fate, os_name) ==
    IF ~path_exists(files, file_path)
    THEN DirResult(files, <<>>, FALSE)
    ELSE LET filename == file_path.name
             taken == path_exists(files, Path("used", filename))
             dest_path == IF taken
                          THEN Path("used", with_timestamp(filename, now))
                          ELSE Path("used", filename)
             vanished == [files EXCEPT ![file_at(files, file_path)] = Lost("vanished")]
             r == rename(files, file_path, dest_path, os_name)
         IN  IF fate # "stays" THEN DirResult(vanished, <<>>, FALSE)
             ELSE IF r.raised THEN DirResult(files, <<>>, FALSE)
             ELSE DirResult(r.files, <<dest_path>>, FALSE)

\* FileManager.move_to_used on a list of paths
RECURSIVE move_to_used_by_name(_, _, _, _, _)
move_to_used_by_name(files, file_paths, now, fates, os_name) ==
    IF file_paths = <<>> THEN DirResult(files, <<>>, FALSE)
    ELSE Then(move_one_to_used(files, Head(file_paths), now, Head(fates), os_name),
              move_to_used_by_name(
                  move_one_to_used(files, Head(file_paths), now, Head(fates),
                                   os_name).files,
                  Tail(file_paths), now, Tail(fates), os_name))

\* move_to_last_uploads, lines 165-196, for one path; skip_recent is the test
\* of line 181
adopt_one(files, file_path, now, os_name, skip_recent) ==
    IF ~path_exists(files, file_path)
    THEN DirResult(files, <<>>, FALSE)
    ELSE IF file_path.zone = "sets"
    THEN DirResult(files, <<file_path>>, FALSE)
    ELSE IF skip_recent /\ file_path.zone = "last_uploads"
    THEN DirResult(files, <<file_path>>, FALSE)
    ELSE LET dest_path == Path("last_uploads", file_path.name)
             cleared == IF path_exists(files, dest_path)
                        THEN move_to_used_by_name(files, <<dest_path>>, now,
                                                  <<"stays">>, os_name).files
                        ELSE files
             r == rename(cleared, file_path, dest_path, os_name)
         IN  IF r.raised THEN DirResult(cleared, <<>>, FALSE)
             ELSE DirResult(r.files, <<dest_path>>, FALSE)

\* the loop of move_to_last_uploads
RECURSIVE adopt_all(_, _, _, _, _)
adopt_all(files, file_paths, now, os_name, skip_recent) ==
    IF file_paths = <<>> THEN DirResult(files, <<>>, FALSE)
    ELSE Then(adopt_one(files, Head(file_paths), now, os_name, skip_recent),
              adopt_all(adopt_one(files, Head(file_paths), now, os_name,
                                  skip_recent).files,
                        Tail(file_paths), now, os_name, skip_recent))

\* move_to_last_uploads without the test of line 181
move_to_last_uploads_again(files, file_paths, now, os_name) ==
    adopt_all(files, file_paths, now, os_name, FALSE)

\* FileManager.move_to_last_uploads on a list of paths
move_to_last_uploads_by_name(files, file_paths, now, os_name) ==
    adopt_all(files, file_paths, now, os_name, TRUE)

\* FileManager.move_file_to_set
move_file_to_set_by_name(files, file_path, now, os_name) ==
    IF ~path_exists(files, file_path)
    THEN DirResult(files, <<>>, TRUE)
    ELSE IF file_path.zone = "sets"
    THEN DirResult(files, <<file_path>>, FALSE)
    ELSE LET filename == file_path.name
             dest_path == IF path_exists(files, Path("sets", filename))
                          THEN Path("sets", with_timestamp(filename, now))
                          ELSE Path("sets", filename)
             r == rename(files, file_path, dest_path, os_name)
         IN  IF r.raised THEN DirResult(files, <<>>, TRUE)
             ELSE DirResult(r.files, <<dest_path>>, FALSE)

\* the paths a caller may pass: where the files lie, and the unstamped names
\* of every directory (a path of the second kind may name no file)
CandidatePaths(files) ==
    {files[c] : c \in {d \in DiskFiles : files[d].zone \in DirZones}}
      \cup {Path(z, FileName(s, <<>>)) : z \in DirZones, s \in Stems}

\* lists of one to MaxPaths paths
PathLists(files) ==
    UNION {[1..n -> CandidatePaths(files)] : n \in 1..MaxPaths}

\* no name has grown beyond the bound of the model
NamesInBounds(files) ==
    \A c \in DiskFiles : Len(files[c].name.stamps) <= MaxStamps

\* what the directory specification leaves alone
other_than_disk == <<user_data, credits, actions, floc, tasks, last_reply,
                     ledger, ledger_init, settle, poll, file_cache, utcnow,
                     upload, old_files, request, extract, public_url, set_images>>

\* the unstamped paths, in a fixed order
SlotPath(k) ==
    Path(<<"root", "last_uploads", "used", "sets">>[((k - 1) % 4) + 1],
         FileName(((k - 1) \div 4) + 1, <<>>))

\* the k-th smallest element of a set of numbers
RECURSIVE Nth(_, _)
Nth(S, k) ==
    LET m == CHOOSE x \in S : \A y \in S : x <= y
    IN  IF k = 1 THEN m ELSE Nth(S \ {m}, k - 1)

\* the directories as they are found: every file lies under a name that has
\* no timestamp, no two files under the same path (files are numbered in the
\* order of their paths, which loses no case: they differ in nothing else)
InitDir ==
    /\ AtRest
    /\ request = NoRequest
    /\ extract = NoExtract
    /\ public_url = NoPublicUrl
    /\ set_images = NoSetImages
    /\ \E taken \in SUBSET (1..(4 * MaxStems)), os_name \in {"posix", "nt"} :
         /\ Cardinality(taken) <= MaxDiskFiles
         /\ disk = [NoDisk EXCEPT
                      !.files = [c \in DiskFiles |->
                                   IF c <= Cardinality(taken)
                                   THEN SlotPath(Nth(taken, c))
                                   ELSE Lost("absent")],
                      !.os_name = os_name]

\* the record of a call: repeat = the call is made on the list the call
\* before it, of move_to_last_uploads, returned; first_moved = that call
\* moved a file; moved = this call did
Called(op, paths, r) ==
    [seq |-> disk.call.seq + 1, op |-> op, paths |-> paths,
     new_paths |-> r.new_paths, raised |-> r.raised,
     repeat |-> /\ op = "move_to_last_uploads"
                /\ disk.call.op = "move_to_last_uploads"
                /\ paths = disk.call.new_paths,
     first_moved |-> disk.call.moved,
     moved |-> r.files # disk.files]

\* a call of move_to_used
DirMoveToUsed ==
    /\ disk.call.seq < MaxDirCalls
    /\ \E file_paths \in PathLists(disk.files) :
         \E fates \in [1..Len(file_paths) -> {"stays", "after_check", "before_rename"}] :
           LET r == move_to_used_by_name(disk.files, file_paths, disk.now, fates,
                                         disk.os_name)
           IN  /\ NamesInBounds(r.files)
               /\ disk' = [disk EXCEPT !.files = r.files,
                                       !.call = Called("move_to_used", file_paths, r)]
    /\ UNCHANGED other_than_disk

\* a call of move_to_last_uploads
DirMoveToLastUploads ==
    /\ disk.call.seq < MaxDirCalls
    /\ \E file_paths \in PathLists(disk.files) \cup {disk.call.new_paths} :
         LET r == move_to_last_uploads_by_name(disk.files, file_paths, disk.now,
                                               disk.os_name)
         IN  /\ NamesInBounds(r.files)
             /\ disk' = [disk EXCEPT
                           !.files = r.files,
                           !.call = Called("move_to_last_uploads", file_paths, r)]
    /\ UNCHANGED other_than_disk

\* a call of move_file_to_set
DirMoveFileToSet ==
    /\ disk.call.seq < MaxDirCalls
    /\ \E file_path \in CandidatePaths(disk.files) :
         LET r == move_file_to_set_by_name(disk.files, file_path, disk.now,
                                           disk.os_name)
         IN  /\ NamesInBounds(r.files)
             /\ disk' = [disk EXCEPT
                           !.files = r.files,
                           !.call = Called("move_file_to_set", <<file_path>>, r)]
    /\ UNCHANGED other_than_disk

\* a second passes
DirTick ==
    /\ disk.now < MaxDiskClock
    /\ disk' = [disk EXCEPT !.now = @ + 1]
    /\ UNCHANGED other_than_disk

NextDir ==
    \/ DirMoveToUsed
    \/ DirMoveToLastUploads
    \/ DirMoveFileToSet
    \/ DirTick

SpecDir == InitDir /\ [][NextDir]_vars

(***************************************************************************)
(* The request specification: one pending credit request and the operator  *)
(* actions on it.  handle_credit_request_callback runs as a task of its    *)
(* own for every button press, and approve_credit_request and              *)
(* reject_credit_request run in executor threads, each with a session of   *)
(* its own: rows are read, changed in memory and written at commit.        *)
(***************************************************************************)
Resolvers == 1..MaxResolvers

\* what the request specification leaves alone
other_than_request == <<user_data, floc, tasks, last_reply, ledger, ledger_init,
                        settle, poll, file_cache, utcnow, upload, old_files,
                        disk, extract, public_url, set_images>>

\* create_credit_request: the request is pending
InitRequest ==
    /\ user_data = EmptyUserData
    /\ credits \in {0} \cup InitialBalances
    /\ ledger_init = 0
    /\ actions = <<>>
    /\ floc = [f \in Files |-> "none"]
    /\ tasks = [t \in AttemptIds |-> NoTask]
    /\ last_reply = "none"
    /\ ledger = NoLedger
    /\ settle = NoSettle
    /\ poll = NoPoll
    /\ file_cache = <<>>
    /\ utcnow = 0
    /\ upload = NoUpload
    /\ old_files = {}
    /\ disk = NoDisk
    /\ extract = NoExtract
    /\ public_url = NoPublicUrl
    /\ set_images = NoSetImages
    /\ request = [NoRequest EXCEPT !.status = "pending",
                                   !.amount = CREDIT_REQUEST_AMOUNT]

\* handle_credit_request_callback, lines 729-733 and 754-758: the operator
\* presses a button and the handler reads the request
ResolveCheck(i) ==
    /\ request.ops[i].pc = "none"
    /\ \E kind \in {"approve", "reject"} :
         request' = [request EXCEPT !.ops[i] =
            IF request.status = "pending"
            THEN [pc |-> "query", kind |-> kind, seen |-> 0, result |-> "none"]
            ELSE [pc |-> "done", kind |-> kind, seen |-> 0,
                  result |-> "already_processed"]]
    /\ UNCHANGED <<credits, actions, other_than_request>>

\* approve_credit_request, lines 396-399, and reject_credit_request, lines
\* 440-443: the pending request is looked up
ResolveQuery(i) ==
    /\ request.ops[i].pc = "query"
    /\ request' = [request EXCEPT !.ops[i] =
          IF request.status # "pending"
          THEN [@ EXCEPT !.pc = "done", !.result = "failed"]
          ELSE [@ EXCEPT !.pc = IF request.ops[i].kind = "approve"
                                THEN "user" ELSE "commit"]]
    /\ UNCHANGED <<credits, actions, other_than_request>>

\* approve_credit_request, lines 401-404: the user row is read
ResolveReadUser(i) ==
    /\ request.ops[i].pc = "user"
    /\ request' = [request EXCEPT !.ops[i].pc = "commit",
                                  !.ops[i].seen = credits]
    /\ UNCHANGED <<credits, actions, other_than_request>>

\* approve_credit_request, lines 405-416: balance and status are written at
\* commit and the approval is recorded
ApproveRequestCommit(i) ==
    /\ request.ops[i].pc = "commit"
    /\ request.ops[i].kind = "approve"
    /\ credits' = request.ops[i].seen + request.amount
    /\ actions' = add_action(actions, 0, "credit_request_approved", 0)
    /\ request' = [request EXCEPT !.status = "approved",
                                  !.ops[i].pc = "done",
                                  !.ops[i].result = "approved"]
    /\ UNCHANGED other_than_request

\* reject_credit_request, lines 445-448: the status is written at commit
RejectRequestCommit(i) ==
    /\ request.ops[i].pc = "commit"
    /\ request.ops[i].kind = "reject"
    /\ request' = [request EXCEPT !.status = "rejected",
                                  !.ops[i].pc = "done",
                                  !.ops[i].result = "rejected"]
    /\ UNCHANGED <<credits, actions, other_than_request>>

NextRequest ==
    \E i \in Resolvers :
        \/ ResolveCheck(i)
        \/ ResolveQuery(i)
        \/ ResolveReadUser(i)
        \/ ApproveRequestCommit(i)
        \/ RejectRequestCommit(i)

SpecRequest == InitRequest /\ [][NextRequest]_vars

(***************************************************************************)
(* The extraction specification: the search for the image URL in the       *)
(* final result of a generation (handlers.py, lines 1342-1361), applied    *)
(* once to every result within the bounds.  A missing key and the value    *)
(* None are both Absent; of a list only its first element is read.         *)
(***************************************************************************)
\* the keys of the result the search looks at
ResultKeys == {"images", "result", "url", "jobs"}

\* an element of an 'images' or 'results' list: a dict with the keys 'url'
\* and 'image_url', or something that is not a dict
Items == [kind : {"dict"}, url : {Absent, "", "u1"}, image_url : {Absent, "u2"}]
NotADictItem == [kind |-> "other", url |-> Absent, image_url |-> Absent]

\* a list of dicts, given by its first element
ItemLists == {<<>>} \cup {<<i>> : i \in Items}

\* the value of 'result': a dict with the keys 'images' and 'url', or not a dict
NotADictResult == [kind |-> "other", has |-> {}, images |-> <<>>, url |-> Absent]
InnerResults ==
    {NotADictResult} \cup
    UNION {[kind : {"dict"}, has : {k},
            images : IF "images" \in k THEN ItemLists ELSE {<<>>},
            url : IF "url" \in k THEN {"u3"} ELSE {Absent}] :
           k \in SUBSET {"images", "url"}}

\* an element of 'jobs': a dict with or without the key 'results', or not a dict
NotADictJob == [kind |-> "other", has_results |-> FALSE, results |-> <<>>]
Jobs ==
    {NotADictJob, [kind |-> "dict", has_results |-> FALSE, results |-> <<>>]}
    \cup [kind : {"dict"}, has_results : {TRUE},
          results : ItemLists \cup {<<NotADictItem>>}]

JobLists == UNION {[1..n -> Jobs] : n \in 0..MaxJobs}

\* the results: a dict with any of the four keys, next to 'status'
Results ==
    UNION {[keys : {k},
            images : IF "images" \in k THEN ItemLists ELSE {<<>>},
            result : IF "result" \in k THEN InnerResults ELSE {NotADictResult},
            url : IF "url" \in k THEN {"u4"} ELSE {Absent},
            jobs : IF "jobs" \in k THEN JobLists ELSE {<<>>}] :
           k \in SUBSET ResultKeys}

\* Python's "a or b" on strings and None
Or(a, b) == IF a \notin {Absent, ""} THEN a ELSE b

\* the item read by its 'image_url' key only
image_url_key_of(item) == item.image_url

\* item.get('url') or item.get('image_url')
url_of(item) == Or(item.url, item.image_url)

\* lines 1354-1361: the loop over the jobs
RECURSIVE url_of_jobs(_, _)
url_of_jobs(jobs, image_url) ==
    IF jobs = <<>> THEN image_url
    ELSE LET job == Head(jobs)
             reads == /\ job.kind = "dict"
                      /\ job.has_results
                      /\ job.results # <<>>
                      /\ job.results[1].kind = "dict"
             found == IF reads THEN url_of(job.results[1]) ELSE image_url
         IN  IF reads /\ found \notin {Absent, ""} THEN found
             ELSE url_of_jobs(Tail(jobs), found)

\* lines 1342-1361: the image URL of a result, Absent for None
image_url_of(result) ==
    IF "images" \in result.keys /\ result.images # <<>>
    THEN url_of(result.images[1])
    ELSE IF "result" \in result.keys /\ result.result.kind = "dict"
    THEN IF "images" \in result.result.has /\ result.result.images # <<>>
         THEN url_of(result.result.images[1])
         ELSE IF "url" \in result.result.has THEN result.result.url
         ELSE Absent
    ELSE IF "url" \in result.keys THEN result.url
    ELSE IF "jobs" \in result.keys /\ result.jobs # <<>>
    THEN url_of_jobs(result.jobs, Absent)
    ELSE Absent

InitExtract ==
    /\ AtRest
    /\ disk = NoDisk
    /\ request = NoRequest
    /\ public_url = NoPublicUrl
    /\ set_images = NoSetImages
    /\ \E r \in Results :
         extract = [stage |-> "result", result |-> r, image_url |-> Absent]

ExtractImageUrl ==
    /\ extract.stage = "result"
    /\ extract' = [extract EXCEPT !.stage = "extracted",
                                  !.image_url = image_url_of(extract.result)]
    /\ UNCHANGED <<user_data, credits, actions, floc, tasks, last_reply,
                   ledger, ledger_init, settle, poll, file_cache, utcnow,
                   upload, old_files, disk, request, public_url, set_images>>

NextExtract == ExtractImageUrl

SpecExtract == InitExtract /\ [][NextExtract]_vars

(***************************************************************************)
(* The URL specification: one call of upload_file (api/client.py, the      *)
(* same code in both clients) on a reference image, followed down to       *)
(* _get_public_url.  A path is the list of its components, as line 566     *)
(* splits it; list positions count from 1 here and from 0 in the source.   *)
(***************************************************************************)
\* settings.STORAGE_PATH split at '/': the default below a relative and an
\* absolute BASE_DIR, a BASE_DIR below a directory called users, and a
\* configured storage_path
StoragePaths == {<<"storage", "users">>,
                 <<"", "app", "storage", "users">>,
                 <<"", "users", "app", "storage", "users">>,
                 <<"", "data", "files">>}

\* the directories below the user directory in which a reference image lies
ZoneDirs == {<<>>, <<"last_uploads">>, <<"used">>, <<"sets", "7">>}

\* the path of a file of user 42, split into components
PathParts(storage_path, zone_dir) == storage_path \o <<"42">> \o zone_dir \o <<"a.jpg">>

\* what the upload step returns: a URL of the local server, or the text it
\* was given, or a URL of the upload service or of the cache
ServedUrl(route) == [base |-> "http://localhost:5000", route |-> route]
BarePath(parts) == [base |-> "", route |-> parts]
RemoteUrl(origin) == [base |-> origin, route |-> <<>>]

\* parts.index('users')
index(parts, x) == CHOOSE i \in 1..Len(parts) :
                      parts[i] = x /\ \A j \in 1..(i - 1) : parts[j] # x

\* client._get_public_url, lines 545-615
get_public_url(parts, exists, is_dir) ==
    IF ~exists \/ is_dir THEN BarePath(parts)
    ELSE IF \E i \in 1..Len(parts) : parts[i] = "users"
    THEN LET user_idx == index(parts, "users")
             len == Len(parts)
         IN  IF ~(user_idx < len) THEN BarePath(parts)
             ELSE IF user_idx + 3 < len
             THEN IF parts[user_idx + 4] = "" THEN BarePath(parts)
                  ELSE ServedUrl(<<"files", parts[user_idx + 1], parts[user_idx + 2],
                                  parts[user_idx + 3], parts[user_idx + 4]>>)
             ELSE IF user_idx + 2 < len
             THEN IF parts[user_idx + 3] = "" THEN BarePath(parts)
                  ELSE ServedUrl(<<"files", parts[user_idx + 1], parts[user_idx + 2],
                                  parts[user_idx + 3]>>)
             ELSE IF user_idx + 1 < len
             THEN IF parts[user_idx + 2] \in {"", "last_uploads", "results", "used", "sets"}
                  THEN BarePath(parts)
                  ELSE ServedUrl(<<"files", parts[user_idx + 1], parts[user_idx + 2]>>)
             ELSE BarePath(parts)
    ELSE BarePath(parts)

other_than_public_url == <<user_data, credits, actions, floc, tasks, last_reply,
                           ledger, ledger_init, settle, poll, file_cache, utcnow,
                           upload, old_files, disk, request, extract, set_images>>

InitUrl ==
    /\ AtRest
    /\ disk = NoDisk
    /\ request = NoRequest
    /\ extract = NoExtract
    /\ set_images = NoSetImages
    /\ \E sp \in StoragePaths, zd \in ZoneDirs :
         public_url = [stage |-> "check", storage_path |-> sp, zone_dir |-> zd,
                       why |-> "none", returned |-> BarePath(<<>>)]

\* lines 505-509: os.path.exists(file_path)
UploadFileCheck ==
    /\ public_url.stage = "check"
    /\ \E exists \in BOOLEAN :
         public_url' = [public_url EXCEPT
                           !.stage = IF exists THEN "cache" ELSE "fallback",
                           !.why = IF exists THEN @ ELSE "missing"]
    /\ UNCHANGED other_than_public_url

\* lines 511-525: the cache is asked, then HIGGSFIELD_CLIENT_AVAILABLE
UploadFileCache ==
    /\ public_url.stage = "cache"
    /\ \E cached \in BOOLEAN, available \in BOOLEAN :
         public_url' =
             IF cached
             THEN [public_url EXCEPT !.stage = "returned",
                                     !.returned = RemoteUrl("cache")]
             ELSE IF ~available
             THEN [public_url EXCEPT !.stage = "fallback", !.why = "unavailable"]
             ELSE [public_url EXCEPT !.stage = "upload"]
    /\ UNCHANGED other_than_public_url

\* lines 527-543: higgsfield_client.upload_file returns or raises
UploadFileCall ==
    /\ public_url.stage = "upload"
    /\ \E raises \in BOOLEAN :
         public_url' =
             IF raises
             THEN [public_url EXCEPT !.stage = "fallback", !.why = "raised"]
             ELSE [public_url EXCEPT !.stage = "returned",
                                     !.returned = RemoteUrl("higgsfield")]
    /\ UNCHANGED other_than_public_url

\* lines 545-615: the fallback; a file that was there at line 506 may have
\* been moved by another handler since
GetPublicUrl ==
    /\ public_url.stage = "fallback"
    /\ \E exists \in BOOLEAN :
         /\ public_url.why = "missing" => ~exists
         /\ public_url' =
              [public_url EXCEPT
                 !.stage = "returned",
                 !.returned = get_public_url(PathParts(public_url.storage_path,
                                                       public_url.zone_dir),
                                             exists, FALSE)]
    /\ UNCHANGED other_than_public_url

NextUrl ==
    \/ UploadFileCheck
    \/ UploadFileCache
    \/ UploadFileCall
    \/ GetPublicUrl

SpecUrl == InitUrl /\ [][NextUrl]_vars

(***************************************************************************)
(* The resolution specification: the three handlers that decide which      *)
(* photos a session uses (handlers.py), started after a prompt was         *)
(* accepted, on any placement of the user's files.  set_images holds, for  *)
(* each image of the user's reference set, the zone of its stored          *)
(* file_path ("none": the file is no image of the set).                    *)
(***************************************************************************)
\* the zones a stored file_path of a set image can name
StoredZones == {"sets", "root", "last_uploads"}

\* os.path.exists(img.file_path)
stored_path_exists(fl, si, f) == fl[f] = si[f]

\* file_manager.find_file_by_name: file names are unique, so the directory
\* in which the file lies is the one the search finds
find_file_by_name(fl, f) == fl[f]

\* lines 2373-2391: the paths of the set images that exist or were found
RECURSIVE valid_paths_from(_, _, _)
valid_paths_from(fl, si, f) ==
    IF f > MaxFiles THEN <<>>
    ELSE (IF si[f] = "none" \/ find_file_by_name(fl, f) = "none" THEN <<>>
          ELSE <<Path(fl[f], f)>>) \o valid_paths_from(fl, si, f + 1)

\* lines 2377-2388: update_face_reference_set_image_path for the images
\* whose file was found elsewhere
repaired_paths(fl, si) ==
    [f \in Files |->
        IF si[f] # "none" /\ ~stored_path_exists(fl, si, f)
             /\ find_file_by_name(fl, f) # "none"
        THEN find_file_by_name(fl, f) ELSE si[f]]

InitResolve ==
    /\ poll = NoPoll
    /\ file_cache = <<>>
    /\ utcnow = 0
    /\ upload = NoUpload
    /\ old_files = {}
    /\ disk = NoDisk
    /\ request = NoRequest
    /\ extract = NoExtract
    /\ public_url = NoPublicUrl
    /\ credits \in InitialBalances
    /\ actions = <<>>
    /\ tasks = [t \in AttemptIds |-> NoTask]
    /\ last_reply = "none"
    /\ ledger = NoLedger
    /\ ledger_init = 0
    /\ settle = NoSettle
    /\ user_data = SetMediaGroups(SetImagePaths(SetCreditCost(
                       [EmptyUserData EXCEPT !.prompt = "p1",
                                             !.state = STATE_WAITING_PHOTO,
                                             !.user_id = TRUE,
                                             !.selected_mode = MODE_SEEDREAM],
                       GENERATION_CREDIT_COST), <<>>), <<>>)
    /\ floc \in [Files -> {"none", "root", "last_uploads", "used", "sets"}]
    /\ set_images \in [Files -> {"none"} \cup StoredZones]

\* handle_upload_new_photos_callback: the user chooses to send new photos
handle_upload_new_photos_callback ==
    /\ CanStart
    /\ floc' = clear_last_uploads(floc)
    /\ Reply("handle_upload_new_photos_callback", "send_photos")
    /\ UNCHANGED <<user_data, credits, actions, tasks, ledger, ledger_init, settle,
                   poll, file_cache, utcnow, upload, old_files, detail_vars>>

\* handle_face_reference_set_callback, callback ref_set_use_{set_id}
ref_set_use ==
    /\ CanStart
    /\ LET valid_paths == valid_paths_from(floc, set_images, 1)
       IN  IF valid_paths = <<>>
           THEN /\ UNCHANGED <<user_data, floc, set_images, last_reply>>
           ELSE /\ set_images' = repaired_paths(floc, set_images)
                /\ floc' = clear_user_temp_files(floc)
                /\ user_data' = [SetImagePaths(user_data, valid_paths) EXCEPT
                                    !.state = STATE_WAITING_ASPECT,
                                    !.new_photos_uploaded = FALSE]
                /\ Reply("handle_face_reference_set_callback", "choose_aspect")
    /\ UNCHANGED <<credits, actions, tasks, ledger, ledger_init, settle,
                   poll, file_cache, utcnow, upload, old_files,
                   disk, request, extract, public_url>>

NextResolve ==
    \/ handle_use_last_uploads_callback
    \/ handle_upload_new_photos_callback
    \/ ref_set_use

SpecResolve == InitResolve /\ [][NextResolve]_vars

(***************************************************************************)
(* The job-id specification: the search for the job identifier in the      *)
(* response of api_client.generate (handlers.py, lines 1210-1225), applied *)
(* once to every response within the bounds.  Of 'jobs' only the first     *)
(* element is read.                                                        *)
(***************************************************************************)
\* the value of 'jobs': no list element, a first element that is no dict, or
\* a dict with or without the key 'id'
NotADictFirstJob == [kind |-> "other", has_id |-> FALSE, id |-> Absent]
FirstJobs ==
    {NotADictFirstJob, [kind |-> "dict", has_id |-> FALSE, id |-> Absent]}
    \cup [kind : {"dict"}, has_id : {TRUE}, id : {Absent, "", "j1"}]
JobIdLists == {<<>>} \cup {<<j>> : j \in FirstJobs}

\* the responses: something that is no dict, or a dict with any of the keys
\* 'request_id', 'id' and 'jobs'; a value may be None (Absent) or empty
NotADictResponse == [kind |-> "other", keys |-> {}, request_id |-> Absent,
                     id |-> Absent, jobs |-> <<>>]
InitialResults ==
    {NotADictResponse} \cup
    UNION {[kind : {"dict"}, keys : {k},
            request_id : IF "request_id" \in k THEN {Absent, "", "r1"} ELSE {Absent},
            id : IF "id" \in k THEN {Absent, "", "i1"} ELSE {Absent},
            jobs : IF "jobs" \in k THEN JobIdLists ELSE {<<>>}] :
           k \in SUBSET {"request_id", "id", "jobs"}}

\* lines 1210-1219 with the keys 'id' and 'request_id' tried the other way round
request_id_of_id_first(initial_result) ==
    IF initial_result.kind # "dict" THEN Absent
    ELSE IF "id" \in initial_result.keys THEN initial_result.id
    ELSE IF "request_id" \in initial_result.keys THEN initial_result.request_id
    ELSE IF "jobs" \in initial_result.keys /\ initial_result.jobs # <<>>
    THEN IF initial_result.jobs[1].kind = "dict" /\ initial_result.jobs[1].has_id
         THEN initial_result.jobs[1].id ELSE Absent
    ELSE Absent

\* lines 1210-1219: request_id, Absent for None
request_id_of(initial_result) ==
    IF initial_result.kind # "dict" THEN Absent
    ELSE IF "request_id" \in initial_result.keys THEN initial_result.request_id
    ELSE IF "id" \in initial_result.keys THEN initial_result.id
    ELSE IF "jobs" \in initial_result.keys /\ initial_result.jobs # <<>>
    THEN IF initial_result.jobs[1].kind = "dict" /\ initial_result.jobs[1].has_id
         THEN initial_result.jobs[1].id ELSE Absent
    ELSE Absent

InitJobId ==
    /\ AtRest
    /\ disk = NoDisk
    /\ request = NoRequest
    /\ public_url = NoPublicUrl
    /\ set_images = NoSetImages
    /\ \E r \in InitialResults :
         extract = [stage |-> "initial_result", initial_result |-> r,
                    request_id |-> Absent, polled |-> FALSE]

\* lines 1210-1225: the identifier is searched; "if request_id:" decides
\* whether wait_for_completion is called
FindRequestId ==
    /\ extract.stage = "initial_result"
    /\ LET request_id == request_id_of(extract.initial_result)
       IN  extract' = [extract EXCEPT !.stage = "identified",
                                      !.request_id = request_id,
                                      !.polled = request_id \notin {Absent, ""}]
    /\ UNCHANGED <<user_data, credits, actions, floc, tasks, last_reply,
                   ledger, ledger_init, settle, poll, file_cache, utcnow,
                   upload, old_files, disk, request, public_url, set_images>>

NextJobId == FindRequestId

SpecJobId == InitJobId /\ [][NextJobId]_vars

(***************************************************************************)
(* Properties                                                              *)
(***************************************************************************)
\* the step in which invocation t of the generation handler returns
Finishes(t) == tasks[t].pc # "done" /\ tasks'[t].pc = "done"

\* the outcomes C1 names: success, poll timeout, canceled, content blocked,
\* backend failure
TerminalOutcomes == {"success", "timeout", "canceled", "nsfw", "failed"}

\* C1: when the handling of a generation with a terminal outcome (success,
\* poll timeout, canceled, content blocked, backend failure) finishes, the
\* session state is idle and the image list and the media-group buffer are
\* empty.
C1_SessionClearedAfterOutcome ==
    [][\A t \in AttemptIds :
         (Finishes(t) /\ tasks'[t].outcome \in TerminalOutcomes)
           => /\ user_data'.state \in {STATE_IDLE, Absent}
              /\ user_data'.image_paths = <<>>
              /\ user_data'.media_group_photos = <<>>]_vars

\* C2: whatever balance updates run (generation debits, operator additions
\* and subtractions, credit-request approvals), in any order and interleaving,
\* the balance is never negative.
C2_BalanceNeverNegative == credits >= 0

\* C2, the case: an update that would have gone below zero has committed
C2_ClampReached ==
    \E i \in LedgerOps :
        /\ ledger[i].pc = "done"
        /\ ledger[i].seen + ledger[i].delta < 0
        /\ credits = 0

\* C3: settling a failed attempt leaves the balance unchanged; settling a
\* successful one lowers it by exactly min(cost, balance before).
C3_SettleDebitsMinOrNothing ==
    settle.stage = "settled" =>
        IF settle.generation_failed
        THEN settle.result = settle.balance
        ELSE settle.balance - settle.result = Min(settle.credit_cost, settle.balance)

\* C3, the case: a successful attempt whose cost exceeds the balance is settled
C3_ClampedSettleReached ==
    /\ settle.stage = "settled"
    /\ ~settle.generation_failed
    /\ settle.credit_cost > settle.balance
    /\ settle.result = 0

\* the outcomes without an image: content blocked, backend failure, canceled,
\* poll timeout, no image URL in the result, the image could not be fetched
NoImageOutcomes == {"nsfw", "failed", "canceled", "timeout", "no_url",
                    "download_failed"}

\* C4: an attempt that ends without an image (content blocked, backend
\* failure, canceled, poll timeout, unrecognized result, image not fetched)
\* has debited nothing.
C4_DebitOnlyWithImage ==
    \A t \in AttemptIds :
        tasks[t].outcome \in NoImageOutcomes => tasks[t].debit = 0

\* the failures C5 names: exception while submitting, poll timeout, content
\* blocked, canceled, backend failure, unrecognized result
FailedOutcomes == {"submit_error", "timeout", "nsfw", "canceled", "failed",
                   "no_url"}

\* C5: every failed attempt whose handling has finished has an ActionHistory
\* row of its own with credits_spent zero.
C5_FailedAttemptRecordedAtZero ==
    \A t \in AttemptIds :
        (tasks[t].pc = "done" /\ tasks[t].outcome \in FailedOutcomes)
          => \E i \in 1..Len(actions) :
                 actions[i].attempt = t /\ actions[i].credits_spent = 0

\* C6: the session leaves the idle state towards photo collection only if
\* the balance is at least the cost of one generation, whether the prompt was
\* typed or was generated by the prompt assistant and confirmed.
C6_NoGenerationBelowCost ==
    [][(SessionState # STATE_WAITING_PHOTO /\ SessionState' = STATE_WAITING_PHOTO)
         => credits >= GENERATION_CREDIT_COST]_vars

\* a step of handle_prompt: its reply is the last message and no invocation
\* of the generation handler moved
HandlePromptStep ==
    /\ last_reply' \in {"insufficient_credits", "choose_source", "send_photos"}
    /\ tasks' = tasks

\* C7: a prompt received in the idle state with a balance below the cost is
\* answered with the insufficient-credits message; the state stays idle, no
\* session field, ActionHistory row or balance changes.
C7_RefusedPromptChangesNothing ==
    [][(SessionState = STATE_IDLE /\ credits < GENERATION_CREDIT_COST
          /\ HandlePromptStep)
         => /\ last_reply' = "insufficient_credits"
            /\ user_data' = user_data
            /\ actions' = actions
            /\ credits' = credits
            /\ floc' = floc]_vars

\* C7, the case: a prompt was refused in the idle state for lack of credits
C7_RefusalReached ==
    /\ last_reply = "insufficient_credits"
    /\ SessionState = STATE_IDLE
    /\ credits < GENERATION_CREDIT_COST

\* C8: while the handling of one event of the session is in progress, no
\* other event of that session is handled: every step taken then is a step
\* of the handling in progress.
C8_HandlersDoNotOverlap ==
    [][((\E t \in AttemptIds : InFlight(t))
          /\ \A t \in AttemptIds : tasks'[t].pc = tasks[t].pc)
         => UNCHANGED <<user_data, last_reply, floc>>]_vars

\* C9: a generation that was in flight when the session was restarted, when
\* it goes on and completes, changes neither the state nor the prompt nor the
\* photo buffers of the session as it then stands.
C9_StaleCompletionLeavesSession ==
    [][\A t \in AttemptIds :
         (tasks[t].restarted /\ tasks'[t].pc # tasks[t].pc)
           => /\ user_data'.state = user_data.state
              /\ user_data'.prompt = user_data.prompt
              /\ user_data'.image_paths = user_data.image_paths
              /\ user_data'.media_group_photos = user_data.media_group_photos]_vars

\* C10: whenever no balance update is between its read and its commit, the
\* balance is one that running the committed updates one after another, in
\* some order, would have left: no update is lost.
C10_UpdatesSerializable ==
    (\A i \in LedgerOps : ledger[i].pc # "commit")
      => credits \in SerialResults(ledger_init,
                                   {i \in LedgerOps : ledger[i].pc = "done"})

\* C11: wait_for_completion goes on waiting only while the elapsed time is
\* below max_wait_time: at the first poll at which the elapsed time has
\* reached it, whatever that poll brought (a transport error included), the
\* call ends with the timeout, so it never sleeps at or after max_wait_time.
C11_TimeoutAtFirstLatePoll ==
    /\ poll.pc = "sleep" => poll.now < MaxWait
    /\ poll.exc = "TimeoutError" => poll.now >= MaxWait
    /\ poll.pc = "request" => poll.now < MaxWait + poll_interval

\* the exception that stands for BackendGenerationFailed
BackendGenerationFailed == "RuntimeError:failed"

\* C12: a poll whose status is failed or error ends wait_for_completion on
\* that poll with the backend-failure exception: it is not followed by a
\* sleep and a further poll, and the outcome is not the timeout.
C12_FailedOrErrorIsTerminal ==
    poll.status \in {"failed", "error"}
      => /\ poll.pc \in {"raised", "reported"}
         /\ poll.exc = BackendGenerationFailed

\* C13: a poll that ends in a transport or parse error ends
\* wait_for_completion only with the timeout, and only once the elapsed time
\* has reached max_wait_time; otherwise the loop sleeps and polls again.
C13_PollErrorsOnlyEndAsTimeout ==
    poll.event \in {"transport_error", "parse_error"}
      => \/ poll.pc = "sleep"
         \/ poll.exc = "TimeoutError" /\ poll.now >= MaxWait

\* C14: on both routes status nsfw ends wait_for_completion with the
\* content-blocked exception and status canceled or cancelled with the
\* canceled exception, and the message the caller shows is a different one
\* for content blocked, canceled, backend failure and timeout.
C14_BlockedAndCanceledDistinguished ==
    /\ poll.status = "nsfw"
         => poll.pc \in {"raised", "reported"} /\ poll.exc = "ValueError:nsfw"
    /\ poll.status \in {"canceled", "cancelled"}
         => poll.pc \in {"raised", "reported"} /\ poll.exc = "ValueError:canceled"
    /\ poll.pc = "reported"
         => /\ poll.user_message = "content_blocked" <=> poll.status = "nsfw"
            /\ poll.user_message = "request_canceled"
                 <=> poll.status \in {"canceled", "cancelled"}
            /\ poll.user_message = "server_error"
                 <=> poll.exc = BackendGenerationFailed
            /\ poll.user_message = "wait_time_exceeded"
                 <=> poll.exc = "TimeoutError"

\* C14, the case: a canceled job has been reported to the user as canceled
C14_CanceledReported ==
    /\ poll.pc = "reported"
    /\ poll.status \in {"canceled", "cancelled"}
    /\ poll.user_message = "request_canceled"

\* a step in which a handler other than the generation handler replied
ReplyStep(kinds) == last_reply' \in kinds /\ tasks' = tasks

\* C15: an aspect ratio outside valid_ratios starts no generation, and the
\* step that refuses it leaves the session (its state included), the balance,
\* the history and the files as they were.
C15_InvalidRatioRefused ==
    [][/\ \A t \in AttemptIds :
            tasks'[t].pc # "none" => tasks'[t].aspect_ratio \in valid_ratios
       /\ ReplyStep({"invalid_ratio"})
            => /\ user_data' = user_data
               /\ credits' = credits
               /\ actions' = actions
               /\ floc' = floc]_vars

\* C15, the case: a ratio was refused while the session waited for one
C15_RefusalReached ==
    /\ last_reply = "invalid_ratio"
    /\ SessionState = STATE_WAITING_ASPECT
    /\ \A t \in AttemptIds : tasks[t].pc = "none"

\* the number of buffered photos of media group gid
GroupLen(ud, gid) ==
    IF GroupIndex(ud.media_group_photos, gid) = 0 THEN 0
    ELSE Len(ud.media_group_photos[GroupIndex(ud.media_group_photos, gid)].paths)

\* the limit of the route of the session
SessionMaxPhotos == get_max_photos_for_mode(get_user_mode(user_data))

UploadStep == upload'.seq # upload.seq

\* the rows of a hash that have not expired at time now
FreshRows(rows, file_hash, now) ==
    {i \in RowsOf(rows, file_hash) : rows[i].expires_at > now}

\* C17: a call of upload_file, on either route, for a file whose hash has a
\* cache row with expires_at in the future calls the upload service zero
\* times and returns exactly the URL of that row.
C17_CacheHitUploadsNothing ==
    [][(/\ UploadStep
        /\ upload'.exists
        /\ FreshRows(file_cache, upload'.file_hash, utcnow) # {})
         => /\ upload'.upload_calls = 0
            /\ \A i \in FreshRows(file_cache, upload'.file_hash, utcnow) :
                 upload'.url = file_cache[i].higgsfield_url]_vars

\* C17, the case: a second call for the same content was served from the cache
C17_CacheHitReached ==
    /\ upload.seq >= 2
    /\ upload.exists
    /\ upload.cached_url \in ExternalUrls
    /\ upload.url = upload.cached_url
    /\ upload.upload_calls = 0

\* C18: every URL in the cache is one the upload service returned; a call of
\* upload_file that returns the URL of the local server leaves the cache as
\* it was, and a call changes the cache only after an upload that returned.
C18_OnlyGenuineUrlsCached ==
    [][/\ \A i \in 1..Len(file_cache') :
            file_cache'[i].higgsfield_url \in ExternalUrls
       /\ (UploadStep /\ upload'.url \notin ExternalUrls)
            => file_cache' = file_cache
       /\ (UploadStep /\ file_cache' # file_cache)
            => upload'.upload_calls = 1 /\ upload'.url \in ExternalUrls]_vars

\* C18, the case: the upload raised and the call fell back to the local URL
C18_FallbackReached ==
    /\ upload.seq >= 1
    /\ upload.exists
    /\ upload.upload_calls = 1
    /\ upload.url = LocalUrl(upload.file_hash)
    /\ ~upload.saved

\* C19: the cache never holds two rows of one hash, and a call of upload_file
\* that writes the cache leaves the one row of the hash with the URL it
\* returned and the expiry of that write.
C19_OneEntryPerHash ==
    [][/\ \A h \in Hashes : Cardinality(RowsOf(file_cache', h)) <= 1
       /\ (UploadStep /\ upload'.saved)
            => /\ RowsOf(file_cache', upload'.file_hash) # {}
               /\ \A i \in RowsOf(file_cache', upload'.file_hash) :
                    /\ file_cache'[i].higgsfield_url = upload'.url
                    /\ file_cache'[i].expires_at = utcnow + CacheTtl]_vars

\* C19, the case: a write for a hash whose (expired) row was still in the
\* table replaced that row
C19_EntryReplaced ==
    /\ upload.saved
    /\ upload.found
    /\ Cardinality(RowsOf(file_cache, upload.file_hash)) = 1
    /\ \A i \in RowsOf(file_cache, upload.file_hash) :
         /\ file_cache[i].higgsfield_url = upload.url
         /\ file_cache[i].expires_at > CacheTtl

\* C20: no operation of the file store and no step of the session deletes a
\* file: a file that exists before a step still exists after it, in some
\* zone of the user.
C20_NoFileEverDeleted ==
    [][\A f \in Files : file_exists(floc, f) => file_exists(floc', f)]_vars

\* a step that is a call of the file manager, of the directory specification
DirCall(op) ==
    /\ disk'.call.seq = disk.call.seq + 1
    /\ disk'.call.op = op

\* C21: a call of move_to_last_uploads on the list of paths that the call of
\* move_to_last_uploads just before it returned moves no file, archives no
\* file and returns the list it was given.
C21_AdoptIntoRecentIdempotent ==
    disk.call.repeat =>
        /\ ~disk.call.moved
        /\ disk.call.new_paths = disk.call.paths
        /\ ~disk.call.raised

\* C21, the case: the first call moved a file and the second call was made
\* on the paths it returned
C21_RepeatedAfterMove ==
    /\ disk.call.repeat
    /\ disk.call.first_moved
    /\ disk.call.paths # <<>>

\* C22: when move_to_last_uploads is given the path of one file whose name
\* is the name of another file lying in last_uploads, then afterwards the
\* file given lies in last_uploads under that name and the file it found
\* there lies in used.
C22_DisplacedFileIsArchived ==
    [][\A a, b \in DiskFiles :
         (/\ DirCall("move_to_last_uploads")
          /\ disk'.call.paths = <<disk.files[a]>>
          /\ disk.files[a].zone \in {"root", "used"}
          /\ disk.files[b] = Path("last_uploads", disk.files[a].name))
           => /\ disk'.files[a] = Path("last_uploads", disk.files[a].name)
              /\ disk'.files[b].zone = "used"]_vars

\* C23: a call of move_to_used on a list of paths of which some name no file
\* (missing before the call, or taken away during it) does not raise, and
\* every file that was named and was not taken away lies in used afterwards.
C23_ArchiveSkipsMissingFiles ==
    [][(/\ DirCall("move_to_used")
        /\ \E i \in 1..Len(disk'.call.paths) :
              \/ ~path_exists(disk.files, disk'.call.paths[i])
              \/ \E c \in DiskFiles : /\ disk.files[c] = disk'.call.paths[i]
                                       /\ disk'.files[c] = Lost("vanished"))
         => /\ ~disk'.call.raised
            /\ \A c \in DiskFiles :
                  (/\ \E i \in 1..Len(disk'.call.paths) :
                         disk.files[c] = disk'.call.paths[i]
                   /\ disk'.files[c] # Lost("vanished"))
                    => disk'.files[c].zone = "used"]_vars

\* C24: no call of move_to_used or move_file_to_set replaces a file: every
\* file that lay under a path before the call and was not taken away by
\* another process lies under a path after it, and no two files under the
\* same path.
C24_MoveNeverOverwrites ==
    [][(DirCall("move_to_used") \/ DirCall("move_file_to_set"))
         => \A c \in DiskFiles :
               disk.files[c].zone \in DirZones
                 => disk'.files[c] # Lost("replaced")]_vars

\* C25: once a credit request is approved or rejected, no operator action
\* changes its status or the balance again, also when two operator actions
\* on the pending request overlap.
C25_RequestResolvedOnce ==
    [][request.status \in {"approved", "rejected"}
         => /\ request'.status = request.status
            /\ credits' = credits]_vars

\* a step of handle_restart_generation_callback or of cancel: it says "reset",
\* and no generation handler moves on in it
RestartStep ==
    /\ last_reply' = "reset"
    /\ \A t \in AttemptIds : tasks'[t].pc = tasks[t].pc

\* C26: a restart (the restart button or /cancel), from whatever state,
\* leaves the session idle with every key of the context but the state
\* missing, moves no file to another zone, changes no balance and appends no
\* history row.
C26_RestartDiscardsSession ==
    [][RestartStep
         => /\ SessionState' = STATE_IDLE
            /\ [user_data' EXCEPT !.state = Absent] = EmptyUserData
            /\ floc' = floc
            /\ credits' = credits
            /\ actions' = actions]_vars

\* C26: a restart has discarded a session whose uploaded photo still lies in
\* the root zone, after a generation has written a history row
C26_RestartedWithUploads ==
    /\ last_reply = "reset"
    /\ user_data.image_paths = <<>>
    /\ \E f \in Files : floc[f] = "root"
    /\ actions # <<>>

\* the outcomes of an attempt that never called api_client.generate
NotSubmittedOutcomes == {"none", "aborted", "no_data"}

\* the action_history rows of attempt t
RecordsOf(t) == {i \in 1..Len(actions) : actions[i].attempt = t}

\* C27: every generation attempt that reached job submission and whose
\* handling has finished has exactly one action_history row, whether it
\* completed or failed.
C27_OneRecordPerAttempt ==
    \A t \in AttemptIds :
        (tasks[t].pc = "done" /\ tasks[t].outcome \notin NotSubmittedOutcomes)
          => Cardinality(RecordsOf(t)) = 1

\* the result of the form {status, jobs: [{results: [{url: X}]}]} and nothing else
JobsOnlyResult(r) ==
    /\ r.keys = {"jobs"}
    /\ Len(r.jobs) = 1
    /\ r.jobs[1].kind = "dict"
    /\ r.jobs[1].has_results
    /\ Len(r.jobs[1].results) = 1
    /\ r.jobs[1].results[1].kind = "dict"
    /\ r.jobs[1].results[1].url \notin {Absent, ""}
    /\ r.jobs[1].results[1].image_url = Absent

\* C28: for a result that holds, next to its status, only a 'jobs' list of
\* one job with one result item {url: X}, the search returns X.
C28_JobsResultUrlExtracted ==
    (extract.stage = "extracted" /\ JobsOnlyResult(extract.result))
      => extract.image_url = extract.result.jobs[1].results[1].url

\* C28: the search has returned the URL of such a result
C28_JobsUrlReached ==
    /\ extract.stage = "extracted"
    /\ JobsOnlyResult(extract.result)
    /\ extract.image_url = "u1"

\* C29: when the upload client is unavailable or the upload call raises,
\* the upload step returns the URL under which the local server serves the
\* file: /files/, the user id, the directories below the user directory and
\* the file name.
C29_FailedUploadGivesLocalUrl ==
    (public_url.stage = "returned" /\ public_url.why \in {"unavailable", "raised"})
      => public_url.returned =
            ServedUrl(<<"files", "42">> \o public_url.zone_dir \o <<"a.jpg">>)

\* C30: no step that resolves the photo source of a session (new photos,
\* the last uploads, a reference set) takes a file to another zone, and the
\* only stored path it rewrites is one that named no file.
C30_ResolutionMovesNoFile ==
    [][/\ floc' = floc
       /\ \A f \in Files :
             set_images'[f] # set_images[f]
               => ~stored_path_exists(floc, set_images, f)]_vars

\* the photos a collecting session holds: the single photos and the photos
\* of every buffered media group
PhotosHeld(ud) == Len(ud.image_paths) + Len(FlattenGroups(ud.media_group_photos))

\* C31: while a session collects photos it never holds more photos, single
\* and grouped together, than the selected route allows, and no generation
\* handler runs with a longer image list.
C31_PhotosWithinRouteLimit ==
    /\ SessionState = STATE_WAITING_PHOTO => PhotosHeld(user_data) <= SessionMaxPhotos
    /\ \A t \in AttemptIds :
          InFlight(t) => Len(tasks[t].image_paths) <= SessionMaxPhotos

\* the step in which invocation t of the generation handler calls
\* api_client.generate
Submits(t) == tasks[t].pc = "submit" /\ tasks'[t].pc # "submit"

\* C32: a job is submitted only while the session waits for the aspect
\* ratio: the handler of an aspect-ratio button pressed in another state
\* (photos still being collected, idle) never reaches api_client.generate.
C32_JobOnlyFromAwaitingAspect ==
    [][\A t \in AttemptIds : Submits(t) => SessionState = STATE_WAITING_ASPECT]_vars

\* a value that is a URL: neither missing nor empty
IsUrl(v) == v \notin {Absent, ""}

\* the URL the first job with a result item carries, Absent when none does
FirstJobUrl(jobs) ==
    LET carries(i) == /\ jobs[i].kind = "dict"
                      /\ jobs[i].has_results
                      /\ jobs[i].results # <<>>
                      /\ jobs[i].results[1].kind = "dict"
                      /\ IsUrl(url_of(jobs[i].results[1]))
    IN  IF \E i \in 1..Len(jobs) : carries(i)
        THEN url_of(jobs[CHOOSE i \in 1..Len(jobs) :
                            carries(i) /\ \A j \in 1..(i - 1) : ~carries(j)].results[1])
        ELSE Absent

\* what each of the five shapes carries, in the order images[0], result.images[0],
\* result.url, url, jobs[*].results[0]
ShapeUrls(r) ==
    <<IF "images" \in r.keys /\ r.images # <<>> THEN url_of(r.images[1]) ELSE Absent,
      IF "result" \in r.keys /\ "images" \in r.result.has /\ r.result.images # <<>>
      THEN url_of(r.result.images[1]) ELSE Absent,
      IF "result" \in r.keys /\ "url" \in r.result.has THEN r.result.url ELSE Absent,
      IF "url" \in r.keys THEN r.url ELSE Absent,
      IF "jobs" \in r.keys THEN FirstJobUrl(r.jobs) ELSE Absent>>

\* C33: when at least one of the five shapes of a result carries a URL, the
\* search returns the URL of the first shape that does, whatever other keys
\* the result has.
C33_FirstShapeWithUrlWins ==
    extract.stage = "extracted"
      => \A k \in 1..5 :
            (/\ IsUrl(ShapeUrls(extract.result)[k])
             /\ \A j \in 1..(k - 1) : ~IsUrl(ShapeUrls(extract.result)[j]))
              => extract.image_url = ShapeUrls(extract.result)[k]

\* the value under the first key present, the keys tried in the given order
\* (1: 'request_id', 2: 'id', 3: 'id' of jobs[0]); Absent when none is present
FirstPresent(r, order) ==
    LET present(k) ==
            CASE k = 1 -> "request_id" \in r.keys
              [] k = 2 -> "id" \in r.keys
              [] OTHER -> /\ "jobs" \in r.keys /\ r.jobs # <<>>
                          /\ r.jobs[1].kind = "dict" /\ r.jobs[1].has_id
        value(k) ==
            CASE k = 1 -> r.request_id
              [] k = 2 -> r.id
              [] OTHER -> r.jobs[1].id
    IN  IF r.kind = "dict" /\ \E n \in 1..3 : present(order[n])
        THEN value(order[CHOOSE n \in 1..3 :
                           present(order[n]) /\ \A m \in 1..(n - 1) : ~present(order[m])])
        ELSE Absent

AllUploadedStep ==
    /\ tasks' = tasks
    /\ SessionState = STATE_WAITING_PHOTO
    /\ SessionState' = STATE_WAITING_ASPECT
    /\ PhotosHeld(user_data) > 0
    /\ get_last_uploads(floc) = <<>>
    /\ user_data'.image_paths # <<>>

\* C35: when the user says that all photos are uploaded, the selected list
\* is the single photos in arrival order followed by the photos of every
\* buffered media group, the groups in the order in which they were first
\* seen.
C35_SelectedInArrivalOrder ==
    [][AllUploadedStep
         => user_data'.image_paths =
               user_data.image_paths \o FlattenGroups(user_data.media_group_photos)]_vars

\* os.path.exists of a selected path: the file lies in the zone the path names
PathExists(p) == floc[p.name] = p.zone

\* C36: once a source of photos is chosen and the aspect ratio awaited,
\* every path of the selected image list refers to a file that exists.
C36_SelectedPathsExist ==
    SessionState = STATE_WAITING_ASPECT
        => \A i \in 1..Len(user_data.image_paths) : PathExists(user_data.image_paths[i])

\* C37: a file recorded as an image of a saved set is moved by no step of
\* the photo-source handlers, whatever the directory it lies in.
C37_SetImagesNeverRotated ==
    [][\A f \in Files : set_images[f] # "none" => floc'[f] = floc[f]]_vars

\* attempt t, for which a job was submitted, ends with this step
Terminates(t) ==
    /\ tasks[t].pc # "done"
    /\ tasks'[t].pc = "done"
    /\ tasks[t].outcome \notin {"none", "aborted", "no_data"}

\* C38: when an attempt that used freshly uploaded photos ends, with success
\* or with a failure, every file selected for it lies in last_uploads.
C38_FreshPhotosAdopted ==
    [][\A t \in AttemptIds : Terminates(t) =>
          \A i \in 1..Len(tasks[t].image_paths) :
              tasks[t].image_paths[i].zone = "root"
                  => floc'[tasks[t].image_paths[i].name] = "last_uploads"]_vars

\* the session after skip was chosen: the aspect ratio is awaited and the
\* selected list is empty
SkipChosen ==
    /\ SessionState = STATE_WAITING_ASPECT
    /\ Has(user_data, "image_paths")
    /\ user_data.image_paths = <<>>

\* C39: the attempt begun after skip was chosen carries an empty image list,
\* whatever photos were buffered before.
C39_SkipGivesEmptyImageList ==
    [][\A t \in AttemptIds :
          (SkipChosen /\ tasks[t].pc = "none" /\ tasks'[t].pc = "edit")
              => tasks'[t].image_paths = <<>>]_vars

\* C40: the credits_spent of the row written after the settlement of an
\* attempt is the amount by which that settlement lowered the balance.
C40_SpentIsDebited ==
    \A i \in 1..Len(actions) :
        actions[i].action_type \in {"api_request", "api_request_error"}
            /\ tasks[actions[i].attempt].pc \notin {"none", "edit", "submit", "poll", "settle", "record"}
            /\ (\A j \in 1..(i - 1) : actions[j].attempt # actions[i].attempt)
          => actions[i].credits_spent = tasks[actions[i].attempt].debit

====
